---- MODULE Spec2Model ----
(***************************************************************************)
(* Nonnon pet planner: the hybrid planner (src/server.js 1-468), the       *)
(* legacy NLU bot (src/server.js 470-1020) and the first bot               *)
(* (src/unnamed/part_001), over one document store.                        *)
(*                                                                         *)
(* Every awaited call of the storage collaborator is one step of a turn,   *)
(* so that turns interleave exactly at the suspension points of the code.  *)
(***************************************************************************)
EXTENDS Integers, Sequences, FiniteSets, TLC

VARIABLES
  sessions,   \* collection 'sessions': user id -> document
  pets,       \* collection 'pets': set of documents
  vaccines,   \* collection 'vaccines': set of documents
  reminders,  \* collection 'reminders': set of documents
  turn,       \* the event handlers in flight: slot -> local variables
  nextId,     \* next auto-generated document id
  started,    \* number of events received so far
  tz,         \* offset of the process time zone (env TZ), minutes east of UTC
  owners,     \* collection 'owners': the user ids that have a document
  cron        \* the hourly reminder job of the legacy bots

vars == <<sessions, pets, vaccines, reminders, turn, nextId, started, tz, owners, cron>>

-----------------------------------------------------------------------------
(* Bounds of the model *)

MaxTurns == 2
MaxActions == 2

Users == {"u1", "u2"}
\* the users whose events arrive when one event is handled at a time
Callers == {"u1"}
PetNames == {"a", "b"}

-----------------------------------------------------------------------------
(* JavaScript values *)

\* a key that is absent / a value that is undefined
Undef == "undefined"
\* an explicit JSON null
Null == "null"

Truthy(v) == v \notin {Undef, Null}

\* a date parameter: a "YYYY-MM-DD" string, the token today, null or undefined
DateLit(s) == [lit |-> s, y |-> 0, m |-> 0, d |-> 0]
YMD(yy, mm, dd) == [lit |-> "ymd", y |-> yy, m |-> mm, d |-> dd]
DateUndef == DateLit(Undef)
DateNull == DateLit(Null)
DateToday == DateLit("today")
DateEmpty == DateLit("")
TruthyDate(v) == v.lit \notin {Undef, Null, ""}

-----------------------------------------------------------------------------
(* Date arithmetic of the JavaScript Date object, in minutes since the epoch *)

MinutesPerDay == 1440
BangkokOffset == 420
NineAM == 9
DefaultCycle == 365

\* day number of a proleptic Gregorian civil date (Date parsing)
DaysFromCivil(yy, mm, dd) ==
  LET y1  == IF mm <= 2 THEN yy - 1 ELSE yy
      era == y1 \div 400
      yoe == y1 - era * 400
      mp  == IF mm > 2 THEN mm - 3 ELSE mm + 9
      doy == (153 * mp + 2) \div 5 + dd - 1
      doe == yoe * 365 + yoe \div 4 - yoe \div 100 + doy
  IN  era * 146097 + doe - 719468

\* civil date of a day number (getFullYear/getMonth/getDate, toISOString)
CivilFromDays(z0) ==
  LET z   == z0 + 719468
      era == z \div 146097
      doe == z - era * 146097
      yoe == (doe - doe \div 1460 + doe \div 36524 - doe \div 146096) \div 365
      doy == doe - (365 * yoe + yoe \div 4 - yoe \div 100)
      mp  == (5 * doy + 2) \div 153
      dd  == doy - (153 * mp + 2) \div 5 + 1
      mm  == IF mp < 10 THEN mp + 3 ELSE mp - 9
      yy  == yoe + era * 400 + (IF mm <= 2 THEN 1 ELSE 0)
  IN  YMD(yy, mm, dd)

\* new Date(`${date}T${hh}:00:00+07:00`): the instant of hh:00 in UTC+7
ParseBangkok(date, hh) ==
  DaysFromCivil(date.y, date.m, date.d) * MinutesPerDay + hh * 60 - BangkokOffset

\* the civil date an instant falls on in the zone with the given offset
CivilIn(instant, offset) == CivilFromDays((instant + offset) \div MinutesPerDay)

\* Date.prototype.toISOString().slice(0,10): the UTC civil date
ISODate(instant) == CivilIn(instant, 0)

\* Date.prototype.setDate(getDate() + days) in the process zone
SetDatePlus(instant, days, zone) ==
  LET local == instant + zone
      day   == local \div MinutesPerDay
      tod   == local % MinutesPerDay
      c     == CivilFromDays(day)
      day2  == DaysFromCivil(c.y, c.m, 1) + (c.d + days) - 1
  IN  day2 * MinutesPerDay + tod - zone

\* addDays of both legacy bots
addDays(dateStr, days, zone) ==
  ISODate(SetDatePlus(ParseBangkok(dateStr, 0), days, zone))

\* the inline computation of the hybrid planner: nextDue and nextDueStr
hybridNextDue(lastDate, cycleDays, zone) ==
  CivilIn(ParseBangkok(lastDate, 0) + cycleDays * MinutesPerDay, zone)

\* the civil date n days after a civil date
CivilPlus(date, n) == CivilFromDays(DaysFromCivil(date.y, date.m, date.d) + n)

\* Number(p.cycle_days || 365); an absent or zero cycle is 0 here
CycleOf(c) == IF c = 0 THEN DefaultCycle ELSE c

-----------------------------------------------------------------------------
(* Session helpers of the hybrid planner *)

\* a partial map; Undef, DateUndef and 0 stand for an absent key
EmptyPartial ==
  [pet_name |-> Undef, vaccine_name |-> Undef, date |-> DateUndef,
   cycle_days |-> 0, temp_photo_url |-> Undef]

\* a document of 'sessions'; exists = FALSE when there is none
NoSession ==
  [exists |-> FALSE, expect |-> Undef, pending_action |-> Undef,
   partial |-> EmptyPartial, pet_name |-> Undef]

\* loadSession: the stored document, or the idle default
loadSession(userId) ==
  IF ~sessions[userId].exists
    THEN [expect |-> Null, pending_action |-> Null, partial |-> EmptyPartial,
          pet_name |-> Undef]
    ELSE [expect |-> sessions[userId].expect,
          pending_action |-> sessions[userId].pending_action,
          partial |-> sessions[userId].partial,
          pet_name |-> sessions[userId].pet_name]

\* set(..., {merge: true}) on a map field: the leaves of a non-empty map are
\* merged into the stored map, an empty map replaces it
MergePartial(old, new) ==
  IF new = EmptyPartial THEN EmptyPartial
  ELSE [pet_name       |-> IF new.pet_name # Undef THEN new.pet_name ELSE old.pet_name,
        vaccine_name   |-> IF new.vaccine_name # Undef THEN new.vaccine_name
                           ELSE old.vaccine_name,
        date           |-> IF new.date # DateUndef THEN new.date ELSE old.date,
        cycle_days     |-> IF new.cycle_days # 0 THEN new.cycle_days ELSE old.cycle_days,
        temp_photo_url |-> IF new.temp_photo_url # Undef THEN new.temp_photo_url
                           ELSE old.temp_photo_url]

\* saveSession: merge expect, pending_action and partial into the document
saveSession(userId, expect, pending, partial) ==
  [sessions EXCEPT ![userId] =
     [exists |-> TRUE, expect |-> expect, pending_action |-> pending,
      partial |-> MergePartial(@.partial, partial), pet_name |-> @.pet_name]]

\* clearSession: delete the document
clearSession(userId) == [sessions EXCEPT ![userId] = NoSession]

\* patchPartial(session, kv) with kv = {pet_name, vaccine_name, date, cycle_days}:
\* the four keys of kv always override, also when their value is undefined
patchPartial(session, p) ==
  [pet_name |-> p.pet_name, vaccine_name |-> p.vaccine_name, date |-> p.date,
   cycle_days |-> CycleOf(p.cycle_days),
   temp_photo_url |-> session.partial.temp_photo_url]

\* the store rejects a document that holds an undefined value
\* (ignoreUndefinedProperties is not enabled on the Firestore handle)
HasUndefined(partial) ==
  Undef \in {partial.pet_name, partial.vaccine_name} \/ partial.date = DateUndef

-----------------------------------------------------------------------------
(* Intent router *)

\* t.includes(k): k occurs in t as a contiguous run
has(t, k) ==
  \E i \in 1..(Len(t) - Len(k) + 1) : SubSeq(t, i, i + Len(k) - 1) = k

plannerVerbs ==
  {<<"phoem">>, <<"banthuek">>, <<"kaekhai">>, <<"du">>, <<"nat">>,
   <<"tuean">>, <<"tang", "tuean">>}
symptoms ==
  {<<"thong", "sia">>, <<"achian">>, <<"suem">>, <<"khan">>, <<"phuen">>,
   <<"ai">>, <<"lueat">>, <<"mai", "kin">>, <<"kin", "noi">>,
   <<"namnak", "lot">>}
shortAnswers ==
  {<<"chai">>, <<"mai">>, <<"wan", "ni">>, <<"muea", "wan">>, <<"phu">>,
   <<"mia">>, <<"thap", "sunak">>, <<"thap", "maeo">>}

quickIntent_SymptomsFirst(text, session) ==
  IF \E v \in symptoms : has(text, v) THEN "health"
  ELSE IF Truthy(session.expect) THEN "continue"
  ELSE IF \E v \in plannerVerbs : has(text, v) THEN "planner"
  ELSE IF text \in shortAnswers THEN "continue"
  ELSE "unknown"

quickIntent(text, session) ==
  IF Truthy(session.expect) THEN "continue"
  ELSE IF \E v \in plannerVerbs : has(text, v) THEN "planner"
  ELSE IF \E v \in symptoms : has(text, v) THEN "health"
  ELSE IF text \in shortAnswers THEN "continue"
  ELSE "unknown"

\* what the probe of llmPlanner can come back with: an exception, null, a plan
\* with an empty list, a plan whose actions are all noop, a plan with some
\* other action
ProbeOutcomes == {"throws", "null", "no_actions", "noop_actions", "actions"}

\* the probe is called only when quickIntent gave 'unknown'
ProbesOf(text, session) ==
  IF quickIntent(text, session) = "unknown" THEN ProbeOutcomes ELSE {"none"}

\* probe?.actions?.length
ProbeHasActions(probe) == probe \in {"noop_actions", "actions"}

\* the probe without its try/catch
routeIntent_NoCatch(text, session, probe) ==
  IF quickIntent(text, session) # "unknown" THEN quickIntent(text, session)
  ELSE IF probe = "throws" THEN "threw"
  ELSE IF ProbeHasActions(probe) THEN "planner"
  ELSE "chat"

\* routeIntent, given the outcome of the probe
routeIntent(text, session, probe) ==
  IF quickIntent(text, session) # "unknown" THEN quickIntent(text, session)
  ELSE IF ProbeHasActions(probe) THEN "planner"
  ELSE "chat"

-----------------------------------------------------------------------------
(* Inputs: message texts and the plans the interpreter can return *)

Texts ==
  {<<"phoem">>, <<"thong", "sia">>, <<"chai">>, <<"sawatdi">>,
   <<"phoem", "thong", "sia">>}

D1 == YMD(2025, 11, 3)

\* the instants at which "today" can be resolved: 02:00 and 10:00 of
\* 2025-11-03 in UTC+7
Nows == {ParseBangkok(D1, 2), ParseBangkok(D1, 10)}

Act(kind, name, species, pet, vaccine, date, cycle) ==
  [action |-> kind,
   params |-> [name |-> name, species |-> species, pet_name |-> pet,
               vaccine_name |-> vaccine, date |-> date, cycle_days |-> cycle]]

BareAct(kind) == Act(kind, Undef, Undef, Undef, Undef, DateUndef, 0)

AddPetActs ==
  {Act("add_pet", n, Undef, Undef, Undef, DateUndef, 0) : n \in {Undef, Null} \cup PetNames}
  \cup {Act("add_pet", "a", "cat", Undef, Undef, DateUndef, 0)}

AddVaccineActs ==
  {Act("add_vaccine", Undef, Undef, pn, vn, dt, 0) :
     pn \in {Null, "a"}, vn \in {Null, "R"}, dt \in {DateNull, D1}}
  \cup {Act("add_vaccine", Undef, Undef, "b", "R", D1, 0),
        Act("add_vaccine", Undef, Undef, "a", "R", DateToday, 0),
        Act("add_vaccine", Undef, Undef, Null, "R", DateToday, 0),
        Act("add_vaccine", Undef, Undef, "a", "R", D1, 30),
        Act("add_vaccine", Undef, Undef, Undef, Undef, DateUndef, 0),
        Act("add_vaccine", Undef, Undef, Undef, "R", D1, 0)}

OtherActs ==
  {BareAct("confirm"), BareAct("noop"), BareAct("list_vaccine"), BareAct("remind_me")}

PlanActs == AddPetActs \cup AddVaccineActs \cup OtherActs

\* the actions that plans of more than one action are built from
CoreActs ==
  {Act("add_pet", "a", Undef, Undef, Undef, DateUndef, 0),
   Act("add_vaccine", Undef, Undef, "a", "R", D1, 0),
   Act("add_vaccine", Undef, Undef, "a", Null, DateNull, 0),
   BareAct("remind_me")}

ActionLists ==
  {<<>>} \cup {<<a>> : a \in PlanActs}
  \cup UNION {[1..k -> CoreActs] : k \in 2..MaxActions}

\* "confidence": number (0..1), in tenths: none at all, and the 0.9 of the
\* prompt's example
Confidences == {0, 9}

\* the plans llmPlanner can return
Plans ==
  [confidence : Confidences, reply_hint : BOOLEAN, followup_question : BOOLEAN,
   actions : ActionLists]

NoPlan ==
  [confidence |-> 9, reply_hint |-> FALSE, followup_question |-> FALSE,
   actions |-> <<>>]

-----------------------------------------------------------------------------
(* Event handlers in flight *)

IdleSession ==
  [expect |-> Null, pending_action |-> Null, partial |-> EmptyPartial,
   pet_name |-> Undef]

IdleTurn ==
  [pc |-> "idle", variant |-> "none", user |-> "none", text |-> <<>>,
   session |-> IdleSession, route |-> "none", outcome |-> "none",
   plan |-> NoPlan, rest |-> <<>>, cur |-> BareAct("none"),
   nextDue |-> DateUndef, petId |-> 0, vaccineId |-> 0, remIdx |-> 0,
   remLeft |-> {}, lines |-> 0, req |-> BareAct("none"), alone |-> FALSE,
   now |-> 0, svc |-> "none", listed |-> FALSE, probe |-> "none",
   reply |-> "none", replies |-> <<>>, nwrites |-> 0,
   del |-> [todo |-> {}, snaps |-> {}]]

Slots == DOMAIN turn
Free(t) == turn[t].pc \in {"idle", "done", "crashed"}

\* a text message event arrives for the hybrid server (onTextMessage)
HStart(t, u, text) ==
  /\ Free(t)
  /\ started < MaxTurns
  /\ started' = started + 1
  /\ turn' = [turn EXCEPT ![t] =
       [IdleTurn EXCEPT !.alone = (\A s \in Slots \ {t} : Free(s)), !.pc = "h_load", !.variant = "hybrid", !.user = u,
                        !.text = text]]
  /\ UNCHANGED <<sessions, pets, vaccines, reminders, nextId, tz, owners, cron>>

\* let session = await loadSession(userId)
HLoadSession(t) ==
  /\ turn[t].pc = "h_load"
  /\ turn' = [turn EXCEPT ![t].session = loadSession(turn[t].user),
                          ![t].pc = "h_route"]
  /\ UNCHANGED <<sessions, pets, vaccines, reminders, nextId, started, tz, owners, cron>>

\* const route = await routeIntent(text, session), and the branch on it
HRoute(t) ==
  /\ turn[t].pc = "h_route"
  /\ \E probe \in ProbesOf(turn[t].text, turn[t].session) :
       LET r == routeIntent(turn[t].text, turn[t].session, probe) IN
       turn' = [turn EXCEPT
         ![t].route = r, ![t].probe = probe,
         ![t].pc = IF r \in {"continue", "planner"} THEN "h_plan"
                   ELSE IF r \in {"health", "chat"} THEN "h_chat"
                   ELSE "h_reply",
         ![t].reply = IF r \in {"continue", "planner", "health", "chat"} THEN "none"
                      ELSE "which"]
  /\ UNCHANGED <<sessions, pets, vaccines, reminders, nextId, started, tz, owners, cron>>

\* runHealthChat: llmChat returns a text or throws
HChat(t) ==
  /\ turn[t].pc = "h_chat"
  /\ \E ok \in BOOLEAN :
       turn' = [turn EXCEPT ![t].pc = IF ok THEN "h_reply" ELSE "crashed",
                            ![t].outcome = IF ok THEN "chat" ELSE "threw",
                            ![t].reply = IF ok THEN "chat" ELSE "none",
                            ![t].text = <<>>]
  /\ UNCHANGED <<sessions, pets, vaccines, reminders, nextId, started, tz, owners, cron>>

\* what the language-model service can do with a request: answer with a JSON
\* text, with a text that is no JSON, with a JSON text cut short, with an HTTP
\* error status, or not at all (the connection fails or times out)
ServiceOutcomes == {"json", "non_json", "partial_json", "http_error", "network_failure"}

\* extractJSON(text): the parsed value, or null when no JSON.parse succeeds
extractJSON(o) == IF o = "json" THEN "value" ELSE Null

\* geminiCall({json: true}): a rejected fetch and `!res.ok` throw, any other
\* answer goes through extractJSON
geminiCall(o) ==
  IF o \in {"http_error", "network_failure"} THEN "throws" ELSE extractJSON(o)

\* llmPlanner -> geminiPlanner -> geminiCall, with no catch on the way
llmPlanner(o) == geminiCall(o)

\* JSON values without an actions array (the list stands empty here, the flag
\* `listed` of the turn says that there is none)
Unlisted ==
  [confidence : {9}, reply_hint : BOOLEAN, followup_question : BOOLEAN,
   actions : {<<>>}]

\* the values llmPlanner can resolve to: <<has an actions array, the value>>
PlanValues(res, plans) ==
  IF res = Null THEN {<<FALSE, NoPlan>>}
  ELSE {<<TRUE, p>> : p \in plans} \cup {<<FALSE, p>> : p \in Unlisted}

\* the branch had the test been `!plan` alone
PlanBranch_NullOnly(res, listed, plan) ==
  IF res = Null THEN "h_reply"
  ELSE IF plan.followup_question
          /\ (Len(plan.actions) = 0 \/ plan.actions[1].action = "noop")
    THEN "h_followup"
  ELSE "h_loop"

\* if (!plan || !Array.isArray(plan.actions)) return the fixed text;
\* if (plan.followup_question && (!plan.actions.length || first is noop)) ...
PlanBranch(res, listed, plan) ==
  IF res = Null \/ ~listed THEN "h_reply"
  ELSE IF plan.followup_question
          /\ (Len(plan.actions) = 0 \/ plan.actions[1].action = "noop")
    THEN "h_followup"
  ELSE "h_loop"

\* runPlanner up to its first storage call: llmPlanner throws, returns
\* nothing usable, or returns a plan
HPlanOf(t, plans) ==
  /\ turn[t].pc = "h_plan"
  /\ \E o \in ServiceOutcomes :
       LET res == llmPlanner(o) IN
       IF res = "throws"
         THEN turn' = [turn EXCEPT ![t].pc = "h_reply", ![t].reply = "starting",
                                   ![t].outcome = "llm_threw", ![t].text = <<>>,
                                   ![t].svc = o]
         ELSE \E v \in PlanValues(res, plans) :
                LET listed == v[1]
                    plan   == v[2]
                    branch == PlanBranch(res, listed, plan)
                IN
                IF branch = "h_reply"
                  THEN turn' = [turn EXCEPT
                         ![t].pc = "h_reply", ![t].reply = "unsure",
                         ![t].outcome = "no_plan", ![t].text = <<>>,
                         ![t].svc = o, ![t].listed = listed]
                  ELSE turn' = [turn EXCEPT
                         ![t].plan = plan, ![t].rest = plan.actions, ![t].text = <<>>,
                         ![t].svc = o, ![t].listed = listed, ![t].pc = branch]
  /\ UNCHANGED <<sessions, pets, vaccines, reminders, nextId, started, tz, owners, cron>>

\* the follow-up branch: saveSession, then return the hint or the question
HFollowupSave(t) ==
  /\ turn[t].pc = "h_followup"
  /\ sessions' = saveSession(turn[t].user, "followup", "collect",
                             turn[t].session.partial)
  /\ turn' = [turn EXCEPT
       ![t].pc = "h_reply", ![t].outcome = "followup",
       ![t].reply = IF turn[t].plan.reply_hint THEN "hint" ELSE "question"]
  /\ UNCHANGED <<pets, vaccines, reminders, nextId, started, tz, owners, cron>>

-----------------------------------------------------------------------------
(* runPlanner: the loop over plan.actions *)

\* if (p.date === 'today') p.date = new Date().toISOString().slice(0,10)
ResolveToday(a, now) ==
  IF a.params.date = DateToday THEN [a EXCEPT !.params.date = ISODate(now)] ELSE a

\* the readings of the clock that matter to an action: new Date() is read
\* only for the token "today" (0 stands for an unread clock)
ClockOf(a) == IF a.params.date = DateToday THEN Nows ELSE {0}

AtLoop(t, kinds) ==
  /\ turn[t].pc = "h_loop"
  /\ turn[t].rest # <<>>
  /\ Head(turn[t].rest).action \in kinds

\* !petName || !vaccine || !lastDate
VaccineIncomplete(p) ==
  ~Truthy(p.pet_name) \/ ~Truthy(p.vaccine_name) \/ ~TruthyDate(p.date)

ExpectFor_PetFirst(p) ==
  IF ~Truthy(p.pet_name) THEN "pet_name"
  ELSE IF ~Truthy(p.vaccine_name) THEN "vaccine_name"
  ELSE "date"

\* !vaccine ? 'vaccine_name' : !petName ? 'pet_name' : 'date'
ExpectFor(p) ==
  IF ~Truthy(p.vaccine_name) THEN "vaccine_name"
  ELSE IF ~Truthy(p.pet_name) THEN "pet_name"
  ELSE "date"

\* the document add_pet writes
HybridPet(id, userId, p) ==
  [id |-> id, owner_user_id |-> userId, name |-> p.name,
   species |-> IF Truthy(p.species) THEN p.species ELSE "dog",
   breed |-> Null, sex |-> "unknown", birthdate |-> Null,
   photo_url |-> Undef, profile_photo_url |-> Null]

\* the document the find-or-create of add_vaccine writes
HybridFoundPet(id, userId, p) ==
  [id |-> id, owner_user_id |-> userId, name |-> p.pet_name,
   species |-> IF Truthy(p.species) THEN p.species ELSE "dog",
   breed |-> Undef, sex |-> Undef, birthdate |-> Undef,
   photo_url |-> Undef, profile_photo_url |-> Undef]

\* the search without the filter on the owner
PetOnFile_AnyOwner(userId, name) ==
  \E d \in pets : d.name = name

\* petSnap.forEach(...): some pet of the owner has the name
PetOnFile(userId, name) ==
  \E d \in pets : d.owner_user_id = userId /\ d.name = name

\* the list without its last entry
HybridRems_NoD0 ==
  <<[type |-> "D-7", back |-> 7], [type |-> "D-1", back |-> 1]>>

\* [['D-7', d7], ['D-1', d1], ['D0', d0]]
HybridRems ==
  <<[type |-> "D-7", back |-> 7], [type |-> "D-1", back |-> 1],
    [type |-> "D0", back |-> 0]>>

\* the instants had the string been parsed as 09:00 UTC
RemindAt_UTC(nextDue, back) ==
  ParseBangkok(nextDue, NineAM) + BangkokOffset - back * MinutesPerDay

\* d0 = new Date(`${nextDueStr}T09:00:00+07:00`), d1 and d7 from d0
RemindAt(nextDue, back) == ParseBangkok(nextDue, NineAM) - back * MinutesPerDay

\* the document of a vaccines.add(...)
VaccineDoc(id, userId, pet, vaccine, last, due) ==
  [id |-> id, owner_user_id |-> userId, pet_name |-> pet, vaccine_name |-> vaccine,
   last_shot_date |-> last, next_due_date |-> due]

\* the document of a reminders.add(...); vaccine_id is 0 where the code stores
\* none; batch is history, not a stored field: the id of the vaccination
\* record whose creation issued this add
ReminderDoc(id, userId, vid, batch, pet, type, at) ==
  [id |-> id, owner_user_id |-> userId, vaccine_id |-> vid, batch |-> batch,
   pet_name |-> pet, type |-> type, remind_at |-> at, sent |-> FALSE]

\* the loop is over: the reply of runPlanner
HLoopEnd(t) ==
  /\ turn[t].pc = "h_loop"
  /\ turn[t].rest = <<>>
  /\ turn' = [turn EXCEPT
       ![t].pc = "h_reply", ![t].outcome = "executed",
       ![t].reply = IF turn[t].plan.reply_hint THEN "hint"
                    ELSE IF turn[t].lines > 0 THEN "lines" ELSE "ok_default"]
  /\ UNCHANGED <<sessions, pets, vaccines, reminders, nextId, started, tz, owners, cron>>

\* add_pet: db.collection('pets').add(...)
HAddPet(t) ==
  /\ AtLoop(t, {"add_pet"})
  /\ LET p == Head(turn[t].rest).params IN
     IF p.name = Undef
       THEN /\ turn' = [turn EXCEPT ![t].pc = "crashed", ![t].outcome = "threw"]
            /\ UNCHANGED <<pets, nextId>>
       ELSE /\ pets' = pets \cup {HybridPet(nextId, turn[t].user, p)}
            /\ nextId' = nextId + 1
            /\ turn' = [turn EXCEPT ![t].pc = "h_pet_clear",
                                    ![t].cur = Head(turn[t].rest), ![t].req = Head(turn[t].rest),
                                    ![t].lines = @ + 1, ![t].nwrites = @ + 1]
  /\ UNCHANGED <<sessions, vaccines, reminders, started, tz, owners, cron>>

\* add_pet: newSession = await clearSession(userId)
HPetClear(t) ==
  /\ turn[t].pc = "h_pet_clear"
  /\ sessions' = clearSession(turn[t].user)
  /\ turn' = [turn EXCEPT ![t].pc = "h_loop", ![t].rest = Tail(@)]
  /\ UNCHANGED <<pets, vaccines, reminders, nextId, started, tz, owners, cron>>

\* the loop going on to the next action after the hold
HoldNext_Continue(rest) == [pc |-> "h_loop", rest |-> Tail(rest)]

\* return { reply: ..., keep: hold } inside the loop: the turn leaves
\* runPlanner, the actions that remain are not looked at
HoldNext(rest) == [pc |-> "h_reply", rest |-> rest]

\* add_vaccine with a missing field: hold the fields and ask
HVaccineHold(t) ==
  /\ AtLoop(t, {"add_vaccine"})
  /\ \E now \in ClockOf(Head(turn[t].rest)) :
     LET p    == ResolveToday(Head(turn[t].rest), now).params
         hold == patchPartial(turn[t].session, p)
     IN
     /\ VaccineIncomplete(p)
     /\ IF HasUndefined(hold)
          THEN /\ turn' = [turn EXCEPT ![t].pc = "crashed", ![t].outcome = "threw"]
               /\ UNCHANGED sessions
          ELSE /\ sessions' = saveSession(turn[t].user, ExpectFor(p), "add_vaccine", hold)
               /\ turn' = [turn EXCEPT
                    ![t].pc = HoldNext(turn[t].rest).pc,
                    ![t].rest = HoldNext(turn[t].rest).rest,
                    ![t].outcome = "asked",
                    ![t].cur = Head(turn[t].rest), ![t].req = Head(turn[t].rest),
                    ![t].reply = IF turn[t].plan.followup_question THEN "question"
                                 ELSE "ask_default"]
  /\ UNCHANGED <<pets, vaccines, reminders, nextId, started, tz, owners, cron>>

\* add_vaccine with all fields: query the owner's pets
HPetQuery(t) ==
  /\ AtLoop(t, {"add_vaccine"})
  /\ ~VaccineIncomplete(Head(turn[t].rest).params)
  /\ \E now \in ClockOf(Head(turn[t].rest)) :
       LET a == ResolveToday(Head(turn[t].rest), now) IN
       turn' = [turn EXCEPT
         ![t].cur = a, ![t].req = Head(turn[t].rest), ![t].now = now,
         ![t].pc = IF PetOnFile(turn[t].user, a.params.pet_name)
                   THEN "h_vac_add" ELSE "h_pet_create"]
  /\ UNCHANGED <<sessions, pets, vaccines, reminders, nextId, started, tz, owners, cron>>

\* add_vaccine: no pet of that name was found, create it
HPetCreate(t) ==
  /\ turn[t].pc = "h_pet_create"
  /\ pets' = pets \cup {HybridFoundPet(nextId, turn[t].user, turn[t].cur.params)}
  /\ nextId' = nextId + 1
  /\ turn' = [turn EXCEPT ![t].pc = "h_vac_add", ![t].nwrites = @ + 1]
  /\ UNCHANGED <<sessions, vaccines, reminders, started, tz, owners, cron>>

\* add_vaccine: compute nextDueStr and add the vaccination record
HVacAdd(t) ==
  /\ turn[t].pc = "h_vac_add"
  /\ LET p   == turn[t].cur.params
         due == hybridNextDue(p.date, CycleOf(p.cycle_days), tz)
     IN
     /\ vaccines' = vaccines \cup
          {VaccineDoc(nextId, turn[t].user, p.pet_name, p.vaccine_name, p.date, due)}
     /\ turn' = [turn EXCEPT ![t].pc = "h_rem_add", ![t].nextDue = due,
                             ![t].vaccineId = nextId,
                             ![t].remIdx = 1, ![t].nwrites = @ + 1]
  /\ nextId' = nextId + 1
  /\ UNCHANGED <<sessions, pets, reminders, started, tz, owners, cron>>

\* add_vaccine: await REMS.add(...) for the next of the three reminders
HRemAdd(t) ==
  /\ turn[t].pc = "h_rem_add"
  /\ LET r == HybridRems[turn[t].remIdx] IN
     reminders' = reminders \cup
       {ReminderDoc(nextId, turn[t].user, 0, turn[t].vaccineId,
                    turn[t].cur.params.pet_name, r.type,
                    RemindAt(turn[t].nextDue, r.back))}
  /\ nextId' = nextId + 1
  /\ turn' = [turn EXCEPT
       ![t].pc = IF turn[t].remIdx = Len(HybridRems) THEN "h_vac_clear" ELSE "h_rem_add",
       ![t].remIdx = @ + 1, ![t].nwrites = @ + 1]
  /\ UNCHANGED <<sessions, pets, vaccines, started, tz, owners, cron>>

\* add_vaccine: newSession = await clearSession(userId)
HVacClear(t) ==
  /\ turn[t].pc = "h_vac_clear"
  /\ sessions' = clearSession(turn[t].user)
  /\ turn' = [turn EXCEPT ![t].pc = "h_loop", ![t].rest = Tail(@),
                          ![t].lines = @ + 1]
  /\ UNCHANGED <<pets, vaccines, reminders, nextId, started, tz, owners, cron>>

\* confirm: newSession = await clearSession(userId)
HConfirm(t) ==
  /\ AtLoop(t, {"confirm"})
  /\ sessions' = clearSession(turn[t].user)
  /\ turn' = [turn EXCEPT ![t].rest = Tail(@), ![t].lines = @ + 1,
                          ![t].cur = Head(turn[t].rest), ![t].req = Head(turn[t].rest)]
  /\ UNCHANGED <<pets, vaccines, reminders, nextId, started, tz, owners, cron>>

\* an action of another kind taken as a cancellation of the open question
HSkip_Cancels(t) ==
  /\ turn[t].pc = "h_loop"
  /\ turn[t].rest # <<>>
  /\ Head(turn[t].rest).action \notin {"add_pet", "add_vaccine", "confirm"}
  /\ turn' = [turn EXCEPT ![t].rest = Tail(@)]
  /\ sessions' = clearSession(turn[t].user)
  /\ UNCHANGED <<pets, vaccines, reminders, nextId, started, tz, owners, cron>>

\* any other kind matches none of the three if-blocks of the loop body
HSkip(t) ==
  /\ turn[t].pc = "h_loop"
  /\ turn[t].rest # <<>>
  /\ Head(turn[t].rest).action \notin {"add_pet", "add_vaccine", "confirm"}
  /\ turn' = [turn EXCEPT ![t].rest = Tail(@)]
  /\ UNCHANGED <<sessions, pets, vaccines, reminders, nextId, started, tz, owners, cron>>

\* client.replyMessage(event.replyToken, ...)
HReply(t) ==
  /\ turn[t].pc = "h_reply"
  /\ turn' = [turn EXCEPT ![t].pc = "done", ![t].replies = Append(@, turn[t].reply)]
  /\ UNCHANGED <<sessions, pets, vaccines, reminders, nextId, started, tz, owners, cron>>

\* an awaited read or write of the store rejects: the exception leaves
\* runPlanner and onTextMessage
HStorageThrows(t) ==
  /\ \/ turn[t].pc \in {"h_load", "h_followup", "h_pet_create", "h_vac_add", "h_rem_add"}
     \/ AtLoop(t, {"add_pet", "add_vaccine"})
  /\ turn' = [turn EXCEPT ![t].pc = "crashed", ![t].outcome = "storage_threw"]
  /\ UNCHANGED <<sessions, pets, vaccines, reminders, nextId, started, tz, owners, cron>>

\* the delete of clearSession rejects: .catch(() => {}) swallows it
HClearFails(t) ==
  /\ \/ /\ turn[t].pc \in {"h_pet_clear", "h_vac_clear"}
        /\ turn' = [turn EXCEPT ![t].pc = "h_loop", ![t].rest = Tail(@),
                                ![t].lines = IF turn[t].pc = "h_vac_clear"
                                             THEN @ + 1 ELSE @]
     \/ /\ AtLoop(t, {"confirm"})
        /\ turn' = [turn EXCEPT ![t].rest = Tail(@), ![t].lines = @ + 1,
                                ![t].cur = Head(turn[t].rest), ![t].req = Head(turn[t].rest)]
  /\ UNCHANGED <<sessions, pets, vaccines, reminders, nextId, started, tz, owners, cron>>

-----------------------------------------------------------------------------
(* handleImageMessage *)

\* the public address of the stored image
PhotoUrl == "url"

\* an image message event arrives
HImageStart(t, u) ==
  /\ Free(t)
  /\ started < MaxTurns
  /\ started' = started + 1
  /\ turn' = [turn EXCEPT ![t] =
       [IdleTurn EXCEPT !.alone = (\A s \in Slots \ {t} : Free(s)),
                        !.pc = "hi_upload", !.variant = "image", !.user = u]]
  /\ UNCHANGED <<sessions, pets, vaccines, reminders, nextId, tz, owners, cron>>

\* getMessageContent and the write to the bucket: done, or the promise
\* rejects and the exception leaves the handler
HImageUpload(t) ==
  /\ turn[t].pc = "hi_upload"
  /\ \E ok \in BOOLEAN :
       turn' = IF ok THEN [turn EXCEPT ![t].pc = "hi_load"]
               ELSE [turn EXCEPT ![t].pc = "crashed", ![t].outcome = "threw"]
  /\ UNCHANGED <<sessions, pets, vaccines, reminders, nextId, started, tz, owners, cron>>

\* session.expect === 'profile_photo' && session.partial?.pet_name
PhotoAwaited(session) ==
  session.expect = "profile_photo" /\ Truthy(session.partial.pet_name)

\* const session = await loadSession(userId), and the branch on it
HImageLoad(t) ==
  /\ turn[t].pc = "hi_load"
  /\ LET session == loadSession(turn[t].user) IN
     turn' = [turn EXCEPT ![t].session = session,
                          ![t].pc = IF PhotoAwaited(session) THEN "hi_attach"
                                    ELSE "hi_save"]
  /\ UNCHANGED <<sessions, pets, vaccines, reminders, nextId, started, tz, owners, cron>>

\* the pets of the owner whose name is the one of the session
PhotoTargets(userId, name) ==
  {d \in pets : d.owner_user_id = userId /\ d.name = name}

\* the loop over the owner's pets: the first with the name gets the photo
HImageAttach(t) ==
  /\ turn[t].pc = "hi_attach"
  /\ LET ds == PhotoTargets(turn[t].user, turn[t].session.partial.pet_name) IN
     IF ds = {}
       THEN /\ pets' = pets
            /\ turn' = [turn EXCEPT ![t].pc = "hi_clear", ![t].reply = "photo_no_profile"]
       ELSE \E d \in ds :
              /\ pets' = (pets \ {d}) \cup {[d EXCEPT !.profile_photo_url = PhotoUrl]}
              /\ turn' = [turn EXCEPT ![t].pc = "hi_clear", ![t].reply = "photo_updated",
                                      ![t].petId = d.id, ![t].nwrites = @ + 1]
  /\ UNCHANGED <<sessions, vaccines, reminders, nextId, started, tz, owners, cron>>

\* await clearSession(userId): the delete, or its rejection swallowed
HImageClear(t) ==
  /\ turn[t].pc = "hi_clear"
  /\ \E ok \in BOOLEAN :
       sessions' = IF ok THEN clearSession(turn[t].user) ELSE sessions
  /\ turn' = [turn EXCEPT ![t].pc = "h_reply", ![t].outcome = "photo_attached"]
  /\ UNCHANGED <<pets, vaccines, reminders, nextId, started, tz, owners, cron>>

\* no photo is awaited: the address is kept in the session and the owner is
\* asked which pet it is for; a rejected write leaves the handler
HImageSave(t) ==
  /\ turn[t].pc = "hi_save"
  /\ \E ok \in BOOLEAN :
       IF ok
         THEN /\ sessions' = saveSession(turn[t].user, "profile_photo_pet_name",
                               "attach_photo",
                               [EmptyPartial EXCEPT !.temp_photo_url = PhotoUrl])
              /\ turn' = [turn EXCEPT ![t].pc = "h_reply", ![t].reply = "which_pet",
                                      ![t].outcome = "photo_held"]
         ELSE /\ sessions' = sessions
              /\ turn' = [turn EXCEPT ![t].pc = "crashed", ![t].outcome = "storage_threw"]
  /\ UNCHANGED <<pets, vaccines, reminders, nextId, started, tz, owners, cron>>

HImageStep(t) ==
  \/ HImageUpload(t) \/ HImageLoad(t) \/ HImageAttach(t) \/ HImageClear(t)
  \/ HImageSave(t)

HPlan(t) == HPlanOf(t, Plans)

\* every step of a hybrid turn but the planner call
HybridRest(t) ==
  \/ HLoadSession(t) \/ HRoute(t) \/ HChat(t) \/ HFollowupSave(t)
  \/ HLoopEnd(t) \/ HAddPet(t) \/ HPetClear(t) \/ HVaccineHold(t)
  \/ HPetQuery(t) \/ HPetCreate(t) \/ HVacAdd(t) \/ HRemAdd(t) \/ HVacClear(t)
  \/ HConfirm(t) \/ HSkip(t) \/ HReply(t)

HybridStep(t) == HPlan(t) \/ HybridRest(t)

-----------------------------------------------------------------------------
(* The legacy NLU bot: handleEvent of src/server.js 708-962 *)

\* what geminiNLU can return besides null
NLU2 ==
  {Act("add_pet", n, Undef, Undef, Undef, DateUndef, 0) : n \in {Null, "a"}}
  \cup {Act("add_pet_details", "a", "cat", Undef, Undef, DateUndef, 0)}
  \cup {Act("add_vaccine", Undef, Undef, pn, vn, dt, 0) :
          pn \in {Null, "a"}, vn \in {Null, "R"}, dt \in {DateNull, D1}}
  \cup {Act("add_vaccine", Undef, Undef, "a", "R", D1, 30), BareAct("smalltalk")}

\* normalizeDate: a YYYY-MM-DD string is kept, anything else becomes ''
normalizeDate(v) == IF v.lit = "ymd" THEN v ELSE DateEmpty

\* Firestore order of the name field: null, then strings in byte order
NameRank(n) ==
  CASE n = Null -> 0 [] n = "" -> 1 [] n = "a" -> 2 [] n = "b" -> 3 [] OTHER -> 4

\* getLastPetName: the last name of the owner's pets ordered by name, or null
getLastPetName(userId) ==
  LET mine == {d \in pets : d.owner_user_id = userId /\ d.name # Undef} IN
  IF mine = {} THEN Null
  ELSE LET last == CHOOSE d \in mine : \A e \in mine : NameRank(e.name) <= NameRank(d.name)
       IN  IF last.name \in {Null, ""} THEN Null ELSE last.name

\* the object base of addOrUpdatePet
PetBase(userId, payload) ==
  [owner_user_id |-> userId, name |-> payload.name,
   species |-> IF Truthy(payload.species) THEN payload.species ELSE Null,
   breed |-> Null, sex |-> "unknown", birthdate |-> Null, photo_url |-> Null]

\* db.collection('pets').add({ ...base, created_at })
PetCreated(id, base) ==
  [id |-> id, owner_user_id |-> base.owner_user_id, name |-> base.name,
   species |-> base.species, breed |-> base.breed, sex |-> base.sex,
   birthdate |-> base.birthdate, photo_url |-> base.photo_url,
   profile_photo_url |-> Undef]

\* q.docs[0].ref.set(base, { merge: true })
PetMerged(doc, base) ==
  [doc EXCEPT !.name = base.name, !.species = base.species, !.breed = base.breed,
              !.sex = base.sex, !.birthdate = base.birthdate,
              !.photo_url = base.photo_url]

\* [['D0', d0], ['D-1', d1], ['D-7', d7]]
LegacyRems ==
  <<[type |-> "D0", back |-> 0], [type |-> "D-1", back |-> 1],
    [type |-> "D-7", back |-> 7]>>

\* a text message event arrives for the legacy NLU bot
L2Start(t, u) ==
  /\ Free(t)
  /\ started < MaxTurns
  /\ started' = started + 1
  /\ turn' = [turn EXCEPT ![t] =
       [IdleTurn EXCEPT !.alone = (\A s \in Slots \ {t} : Free(s)), !.pc = "l2_owner", !.variant = "v2", !.user = u,
                        !.text = <<"sawatdi">>]]
  /\ UNCHANGED <<sessions, pets, vaccines, reminders, nextId, tz, owners, cron>>

\* await ensureOwner(userId): creates the owner document; errors are swallowed
L2EnsureOwner(t) ==
  /\ turn[t].pc = "l2_owner"
  /\ \E ok \in BOOLEAN : owners' = IF ok THEN owners \cup {turn[t].user} ELSE owners
  /\ turn' = [turn EXCEPT ![t].pc = "l2_nlu"]
  /\ UNCHANGED <<sessions, pets, vaccines, reminders, nextId, started, tz, cron>>

\* the second server's geminiCall: the text of the answer; every failure of
\* axios.post (error status, no connection, timeout) is caught and gives null
geminiCallV2(o) ==
  IF o \in {"http_error", "network_failure"} THEN Null ELSE o

\* geminiNLU: null when geminiCall gave none or JSON.parse throws
geminiNLU(o) == IF geminiCallV2(o) = "json" THEN "value" ELSE Null

\* geminiNLU and the dispatch on nlu.intent up to the first storage call
L2Nlu(t) ==
  /\ turn[t].pc = "l2_nlu"
  /\ \/ /\ \E o \in ServiceOutcomes : geminiNLU(o) = Null
        /\ turn' = [turn EXCEPT ![t].pc = "l_reply", ![t].reply = "fallback",
                                ![t].outcome = "no_nlu"]
     \/ \E nlu \in {n \in NLU2 : \E o \in ServiceOutcomes : geminiNLU(o) = "value"} :
          LET p == nlu.params IN
          turn' = [turn EXCEPT
            ![t].cur = nlu, ![t].req = nlu,
            ![t].outcome = IF nlu.action \in {"add_pet", "add_pet_details"} /\ ~Truthy(p.name)
                           THEN "missing_pet_name" ELSE "none",
            ![t].reply = IF nlu.action \in {"add_pet", "add_pet_details"}
                           THEN (IF Truthy(p.name) THEN "none" ELSE "fallback")
                         ELSE IF nlu.action = "add_vaccine" THEN "none"
                         ELSE "ack",
            ![t].pc = IF nlu.action \in {"add_pet", "add_pet_details"}
                        THEN (IF Truthy(p.name) THEN "l2_pet_query" ELSE "l_reply")
                      ELSE IF nlu.action = "add_vaccine"
                        THEN (IF Truthy(p.pet_name) THEN "l2_vac_check" ELSE "l2_lastpet")
                      ELSE "l_reply"]
  /\ UNCHANGED <<sessions, pets, vaccines, reminders, nextId, started, tz, owners, cron>>

\* add_vaccine: pet = ... || await getLastPetName(userId)
L2LastPet(t) ==
  /\ turn[t].pc = "l2_lastpet"
  /\ turn' = [turn EXCEPT ![t].pc = "l2_vac_check",
                          ![t].cur.params.pet_name = getLastPetName(turn[t].user),
                          ![t].req.params.pet_name = getLastPetName(turn[t].user)]
  /\ UNCHANGED <<sessions, pets, vaccines, reminders, nextId, started, tz, owners, cron>>

\* add_vaccine: the two throws, then addVaccine up to vaccines.add
L2VacAdd(t) ==
  /\ turn[t].pc = "l2_vac_check"
  /\ LET p    == turn[t].cur.params
         date == normalizeDate(p.date)
         due  == addDays(date, CycleOf(p.cycle_days), tz)
     IN
     IF ~Truthy(p.pet_name) \/ ~Truthy(p.vaccine_name) \/ ~TruthyDate(date)
       THEN /\ turn' = [turn EXCEPT
                 ![t].pc = "l_reply", ![t].reply = "fallback",
                 ![t].outcome = IF ~Truthy(p.pet_name) THEN "no_pet"
                                ELSE "missing_vaccine_fields"]
            /\ UNCHANGED <<vaccines, nextId>>
       ELSE /\ vaccines' = vaccines \cup
                 {VaccineDoc(nextId, turn[t].user, p.pet_name, p.vaccine_name, date, due)}
            /\ nextId' = nextId + 1
            /\ turn' = [turn EXCEPT ![t].pc = "l2_rem_add", ![t].nextDue = due,
                                    ![t].vaccineId = nextId, ![t].remIdx = 1,
                                    ![t].nwrites = @ + 1]
  /\ UNCHANGED <<sessions, pets, reminders, started, tz, owners, cron>>

\* addVaccine: await reminders.add(...) for the next of the three reminders
L2RemAdd(t) ==
  /\ turn[t].pc = "l2_rem_add"
  /\ LET r == LegacyRems[turn[t].remIdx] IN
     reminders' = reminders \cup
       {ReminderDoc(nextId, turn[t].user, turn[t].vaccineId, turn[t].vaccineId,
                    turn[t].cur.params.pet_name, r.type,
                    RemindAt(turn[t].nextDue, r.back))}
  /\ nextId' = nextId + 1
  /\ turn' = [turn EXCEPT
       ![t].pc = IF turn[t].remIdx = Len(LegacyRems) THEN "l_reply" ELSE "l2_rem_add",
       ![t].outcome = IF turn[t].remIdx = Len(LegacyRems) THEN "vaccine_added" ELSE @,
       ![t].reply = IF turn[t].remIdx = Len(LegacyRems) THEN "ack" ELSE @,
       ![t].remIdx = @ + 1, ![t].nwrites = @ + 1]
  /\ UNCHANGED <<sessions, pets, vaccines, started, tz, owners, cron>>

\* addOrUpdatePet: the query by owner and name, limit 1
L2PetQuery(t) ==
  /\ turn[t].pc = "l2_pet_query"
  /\ LET hits == {d \in pets : d.owner_user_id = turn[t].user
                               /\ d.name = turn[t].cur.params.name}
     IN \/ /\ hits = {}
           /\ turn' = [turn EXCEPT ![t].pc = "l2_pet_write", ![t].petId = 0]
        \/ \E d \in hits :
             turn' = [turn EXCEPT ![t].pc = "l2_pet_write", ![t].petId = d.id]
  /\ UNCHANGED <<sessions, pets, vaccines, reminders, nextId, started, tz, owners, cron>>

\* addOrUpdatePet: add when the query was empty, else set with merge
L2PetWrite(t) ==
  /\ turn[t].pc = "l2_pet_write"
  /\ LET base == PetBase(turn[t].user, turn[t].cur.params) IN
     IF turn[t].petId = 0
       THEN /\ pets' = pets \cup {PetCreated(nextId, base)}
            /\ nextId' = nextId + 1
       ELSE /\ pets' = {IF d.id = turn[t].petId THEN PetMerged(d, base) ELSE d : d \in pets}
            /\ UNCHANGED nextId
  /\ turn' = [turn EXCEPT ![t].pc = "l_reply", ![t].reply = "ack",
                          ![t].outcome = "pet_saved", ![t].nwrites = @ + 1]
  /\ UNCHANGED <<sessions, vaccines, reminders, started, tz, owners, cron>>

\* a storage call inside the try block rejects: caught, the fallback is sent
L2StorageThrows(t) ==
  /\ turn[t].pc \in {"l2_lastpet", "l2_pet_query", "l2_pet_write", "l2_rem_add"}
     \/ (turn[t].pc = "l2_vac_check"
         /\ Truthy(turn[t].cur.params.pet_name)
         /\ Truthy(turn[t].cur.params.vaccine_name)
         /\ TruthyDate(normalizeDate(turn[t].cur.params.date)))
  /\ turn' = [turn EXCEPT ![t].pc = "l_reply", ![t].reply = "fallback",
                          ![t].outcome = "storage_threw"]
  /\ UNCHANGED <<sessions, pets, vaccines, reminders, nextId, started, tz, owners, cron>>

\* lineClient.replyMessage(...)
LReply(t) ==
  /\ turn[t].pc = "l_reply"
  /\ turn' = [turn EXCEPT ![t].pc = "done", ![t].replies = Append(@, turn[t].reply)]
  /\ UNCHANGED <<sessions, pets, vaccines, reminders, nextId, started, tz, owners, cron>>

\* the collections the delete command empties of the owner's documents; the
\* treatments collection is not part of the model
DelCols == {"reminders", "vaccines", "pets"}

\* db.collection(col).where('owner_user_id', '==', ownerId).get()
OwnedIn(col, ownerId) ==
  LET docs == IF col = "reminders" THEN reminders
              ELSE IF col = "vaccines" THEN vaccines ELSE pets
  IN {d.id : d \in {x \in docs : x.owner_user_id = ownerId}}

\* a text message 'ลบข้อมูล' arrives for the legacy NLU bot
L2DeleteStart(t, u) ==
  /\ Free(t)
  /\ started < MaxTurns
  /\ started' = started + 1
  /\ turn' = [turn EXCEPT ![t] =
       [IdleTurn EXCEPT !.alone = (\A s \in Slots \ {t} : Free(s)),
                        !.pc = "l2d_owner", !.variant = "v2", !.user = u,
                        !.text = <<"lop", "khomun">>]]
  /\ UNCHANGED <<sessions, pets, vaccines, reminders, nextId, tz, owners, cron>>

\* await ensureOwner(userId), then the match of the delete command
L2DeleteOwner(t) ==
  /\ turn[t].pc = "l2d_owner"
  /\ \E ok \in BOOLEAN : owners' = IF ok THEN owners \cup {turn[t].user} ELSE owners
  /\ turn' = [turn EXCEPT ![t].pc = "l2d_cols", ![t].del = [todo |-> DelCols, snaps |-> {}]]
  /\ UNCHANGED <<sessions, pets, vaccines, reminders, nextId, started, tz, cron>>

\* delCol: the query of one collection; the delCol of the collections run
\* side by side under Promise.all
L2DelQuery(t) ==
  /\ turn[t].pc = "l2d_cols"
  /\ \E c \in turn[t].del.todo :
       turn' = [turn EXCEPT
         ![t].del = [todo |-> @.todo \ {c},
                     snaps |-> @.snaps \cup
                               {[col |-> c, ids |-> OwnedIn(c, turn[t].user)]}]]
  /\ UNCHANGED <<sessions, pets, vaccines, reminders, nextId, started, tz, owners, cron>>

\* delCol: batch.commit() deletes the documents the query returned
L2DelCommit(t) ==
  /\ turn[t].pc = "l2d_cols"
  /\ \E s \in turn[t].del.snaps :
       /\ reminders' = IF s.col = "reminders"
                       THEN {d \in reminders : d.id \notin s.ids} ELSE reminders
       /\ vaccines' = IF s.col = "vaccines"
                      THEN {d \in vaccines : d.id \notin s.ids} ELSE vaccines
       /\ pets' = IF s.col = "pets" THEN {d \in pets : d.id \notin s.ids} ELSE pets
       /\ turn' = [turn EXCEPT
            ![t].del = [@ EXCEPT !.snaps = @ \ {s}],
            ![t].nwrites = @ + 1,
            ![t].pc = IF turn[t].del.todo = {} /\ turn[t].del.snaps = {s}
                      THEN "l2d_owner_del" ELSE @]
  /\ UNCHANGED <<sessions, nextId, started, tz, owners, cron>>

\* a query or a commit rejects: Promise.all rejects and the catch replies
\* that the delete failed
L2DelThrows(t) ==
  /\ turn[t].pc = "l2d_cols"
  /\ turn' = [turn EXCEPT ![t].pc = "l_reply", ![t].reply = "delete_failed",
                          ![t].outcome = "delete_failed"]
  /\ UNCHANGED <<sessions, pets, vaccines, reminders, nextId, started, tz, owners, cron>>

\* await db.collection('owners').doc(ownerId).delete().catch(()=>{})
L2DelOwnerDoc(t) ==
  /\ turn[t].pc = "l2d_owner_del"
  /\ \E ok \in BOOLEAN : owners' = IF ok THEN owners \ {turn[t].user} ELSE owners
  /\ turn' = [turn EXCEPT ![t].pc = "l2d_session"]
  /\ UNCHANGED <<sessions, pets, vaccines, reminders, nextId, started, tz, cron>>

\* await clearSession(userId), whose rejection is swallowed as well, then the
\* reply that everything was deleted
L2DelSession(t) ==
  /\ turn[t].pc = "l2d_session"
  /\ \E ok \in BOOLEAN :
       sessions' = IF ok THEN clearSession(turn[t].user) ELSE sessions
  /\ turn' = [turn EXCEPT ![t].pc = "l_reply", ![t].reply = "deleted",
                          ![t].outcome = "deleted"]
  /\ UNCHANGED <<pets, vaccines, reminders, nextId, started, tz, owners, cron>>

L2DeleteStep(t) ==
  \/ L2DeleteOwner(t) \/ L2DelQuery(t) \/ L2DelCommit(t) \/ L2DelThrows(t)
  \/ L2DelOwnerDoc(t) \/ L2DelSession(t)

L2Step(t) ==
  \/ L2EnsureOwner(t) \/ L2Nlu(t) \/ L2LastPet(t) \/ L2VacAdd(t) \/ L2RemAdd(t)
  \/ L2PetQuery(t) \/ L2PetWrite(t) \/ LReply(t)

-----------------------------------------------------------------------------
(* The first bot: handleEvent of src/unnamed/part_001 *)

Texts1 == {<<"phoem", "ma", "chue", "a">>, <<"sawatdi">>}

\* what geminiParse can return besides null
NLU1 ==
  {Act("add_pet", n, Undef, Undef, Undef, DateUndef, 0) : n \in {Undef, "a"}}
  \cup {Act("add_vaccine", Undef, Undef, Undef, Undef, DateUndef, 0),
        Act("add_vaccine", Undef, Undef, "a", "R", D1, 0),
        BareAct("list_vaccine")}

\* text.replace('<add dog named>', '').trim() as a name
NameFromText(text) ==
  LET cmd  == <<"phoem", "ma", "chue">>
      rest == IF has(text, cmd)
                THEN LET i == CHOOSE j \in 1..Len(text) :
                                /\ SubSeq(text, j, j + Len(cmd) - 1) = cmd
                                /\ \A k \in 1..(j - 1) : SubSeq(text, k, k + Len(cmd) - 1) # cmd
                     IN  SubSeq(text, 1, i - 1) \o SubSeq(text, i + Len(cmd), Len(text))
                ELSE text
  IN  IF Len(rest) = 0 THEN "" ELSE IF Len(rest) = 1 THEN rest[1] ELSE "text"

\* the defaults of the add_vaccine branch
V1PetDefault == "mochi"
V1VaccineDefault == "Rabies"
V1DateDefault == YMD(2025, 11, 3)

L1Start(t, u, text) ==
  /\ Free(t)
  /\ started < MaxTurns
  /\ started' = started + 1
  /\ turn' = [turn EXCEPT ![t] =
       [IdleTurn EXCEPT !.alone = (\A s \in Slots \ {t} : Free(s)), !.pc = "l1_owner", !.variant = "v1", !.user = u,
                        !.text = text]]
  /\ UNCHANGED <<sessions, pets, vaccines, reminders, nextId, tz, owners, cron>>

\* const ok = await ensureOwner(userId); if (!ok) reply that the store is not ready
L1EnsureOwner(t) ==
  /\ turn[t].pc = "l1_owner"
  /\ \E ok \in BOOLEAN :
       /\ owners' = IF ok THEN owners \cup {turn[t].user} ELSE owners
       /\ turn' = [turn EXCEPT ![t].pc = IF ok THEN "l1_parse" ELSE "l_reply",
                               ![t].reply = IF ok THEN "none" ELSE "db_not_ready"]
  /\ UNCHANGED <<sessions, pets, vaccines, reminders, nextId, started, tz, cron>>

\* geminiParse: one try/catch around the request and JSON.parse, null on
\* any failure
geminiParse(o) == IF o = "json" THEN "value" ELSE Null

\* geminiParse and the dispatch on parsed.intent
L1Parse(t) ==
  /\ turn[t].pc = "l1_parse"
  /\ \/ /\ \E o \in ServiceOutcomes : geminiParse(o) = Null
        /\ turn' = [turn EXCEPT ![t].pc = "l_reply", ![t].reply = "not_understood",
                                ![t].outcome = "no_nlu", ![t].text = <<>>]
     \/ \E parsed \in {n \in NLU1 : \E o \in ServiceOutcomes : geminiParse(o) = "value"} :
          LET p == parsed.params IN
          turn' = [turn EXCEPT
            ![t].outcome = "none", ![t].text = <<>>, ![t].req = parsed,
            ![t].cur =
              IF parsed.action = "add_pet"
                THEN [parsed EXCEPT !.params.name =
                        IF Truthy(p.name) THEN p.name ELSE NameFromText(turn[t].text)]
              ELSE IF parsed.action = "add_vaccine"
                THEN [parsed EXCEPT
                        !.params.pet_name = IF Truthy(p.pet_name) THEN p.pet_name
                                            ELSE V1PetDefault,
                        !.params.vaccine_name = IF Truthy(p.vaccine_name) THEN p.vaccine_name
                                                ELSE V1VaccineDefault,
                        !.params.date = IF TruthyDate(p.date) THEN p.date
                                        ELSE V1DateDefault]
              ELSE parsed,
            ![t].reply = IF parsed.action \in {"add_pet", "add_vaccine"} THEN "none"
                         ELSE "not_understood",
            ![t].pc = IF parsed.action = "add_pet" THEN "l1_pet_add"
                      ELSE IF parsed.action = "add_vaccine" THEN "l1_vac_add"
                      ELSE "l_reply"]
  /\ UNCHANGED <<sessions, pets, vaccines, reminders, nextId, started, tz, owners, cron>>

\* addPet: db.collection('pets').add({ owner_user_id, name })
L1PetAdd(t) ==
  /\ turn[t].pc = "l1_pet_add"
  /\ pets' = pets \cup
       {[id |-> nextId, owner_user_id |-> turn[t].user, name |-> turn[t].cur.params.name,
         species |-> Undef, breed |-> Undef, sex |-> Undef, birthdate |-> Undef,
         photo_url |-> Undef, profile_photo_url |-> Undef]}
  /\ nextId' = nextId + 1
  /\ turn' = [turn EXCEPT ![t].pc = "l_reply", ![t].reply = "ack",
                          ![t].outcome = "pet_saved", ![t].nwrites = @ + 1]
  /\ UNCHANGED <<sessions, vaccines, reminders, started, tz, owners, cron>>

\* addVaccine: vaccines.add, then the three reminder adds are issued together
L1VacAdd(t) ==
  /\ turn[t].pc = "l1_vac_add"
  /\ LET p   == turn[t].cur.params
         due == addDays(p.date, CycleOf(p.cycle_days), tz)
     IN
     /\ vaccines' = vaccines \cup
          {VaccineDoc(nextId, turn[t].user, p.pet_name, p.vaccine_name, p.date, due)}
     /\ turn' = [turn EXCEPT ![t].pc = "l1_rem_add", ![t].nextDue = due,
                             ![t].vaccineId = nextId,
                             ![t].remLeft = 1..Len(LegacyRems),
                             ![t].nwrites = @ + 1]
  /\ nextId' = nextId + 1
  /\ UNCHANGED <<sessions, pets, reminders, started, tz, owners, cron>>

\* Promise.all([remind.add(D0), remind.add(D-1), remind.add(D-7)]): the three
\* adds are in flight together; each lands or rejects on its own, the first
\* rejection ends the handler and the others still settle
L1RemAdd(t) ==
  /\ turn[t].variant = "v1"
  /\ turn[t].pc \in {"l1_rem_add", "crashed"}
  /\ \E i \in turn[t].remLeft, ok \in BOOLEAN :
       LET last == turn[t].pc = "l1_rem_add" /\ turn[t].remLeft = {i} IN
       IF ok
         THEN /\ reminders' = reminders \cup
                   {ReminderDoc(nextId, turn[t].user, turn[t].vaccineId, turn[t].vaccineId,
                                turn[t].cur.params.pet_name, LegacyRems[i].type,
                                RemindAt(turn[t].nextDue, LegacyRems[i].back))}
              /\ nextId' = nextId + 1
              /\ turn' = [turn EXCEPT
                   ![t].remLeft = @ \ {i}, ![t].nwrites = @ + 1,
                   ![t].pc = IF last THEN "l_reply" ELSE @,
                   ![t].outcome = IF last THEN "vaccine_added" ELSE @,
                   ![t].reply = IF last THEN "ack" ELSE @]
         ELSE /\ UNCHANGED <<reminders, nextId>>
              /\ turn' = [turn EXCEPT ![t].remLeft = @ \ {i}, ![t].pc = "crashed",
                                      ![t].outcome = "storage_threw"]
  /\ UNCHANGED <<sessions, pets, vaccines, started, tz, owners, cron>>

\* a storage call rejects: nothing catches it in this handler
L1StorageThrows(t) ==
  /\ turn[t].pc \in {"l1_pet_add", "l1_vac_add"}
  /\ turn' = [turn EXCEPT ![t].pc = "crashed", ![t].outcome = "storage_threw"]
  /\ UNCHANGED <<sessions, pets, vaccines, reminders, nextId, started, tz, owners, cron>>

L1Step(t) ==
  \/ L1EnsureOwner(t) \/ L1Parse(t) \/ L1PetAdd(t) \/ L1VacAdd(t) \/ L1RemAdd(t)

-----------------------------------------------------------------------------
(* The hourly reminder job of the legacy bots *)

\* the job at rest. now is the instant of the last query; delivered and
\* failed are history, not program state: the reminders for which a push has
\* gone out, and those for which a push has thrown
IdleCron == [pc |-> "idle", due |-> {}, pushed |-> 0, now |-> 0,
             delivered |-> {}, failed |-> {}]

\* the instants at which the job can run
CronNows == {0} \cup {r.remind_at : r \in reminders}

\* .where('sent', '==', false).where('remind_at', '<=', now)
DueAt(now) == {r.id : r \in {x \in reminders : ~x.sent /\ x.remind_at <= now}}

\* the query: sent == false and remind_at <= now
CronStart ==
  /\ cron.pc = "idle"
  /\ started < MaxTurns
  /\ started' = started + 1
  /\ \E now \in CronNows :
       cron' = [cron EXCEPT !.pc = "loop", !.pushed = 0, !.now = now,
                            !.due = DueAt(now)]
  /\ UNCHANGED <<sessions, pets, vaccines, reminders, turn, nextId, tz, owners>>

\* the update not skipped when the push threw
CronPush_MarkAnyway ==
  /\ cron.pc = "loop"
  /\ cron.due # {}
  /\ \E id \in cron.due, ok \in BOOLEAN :
       cron' = IF ok THEN [cron EXCEPT !.pc = "update", !.pushed = id, !.due = @ \ {id},
                                       !.delivered = @ \cup {id}]
               ELSE [cron EXCEPT !.pc = "update", !.pushed = id, !.due = @ \ {id},
                                 !.failed = @ \cup {id}]
  /\ UNCHANGED <<sessions, pets, vaccines, reminders, turn, nextId, started, tz, owners>>

\* await lineClient.pushMessage(...): it succeeds, or throws and the
\* reminder is skipped
CronPush ==
  /\ cron.pc = "loop"
  /\ cron.due # {}
  /\ \E id \in cron.due, ok \in BOOLEAN :
       cron' = IF ok THEN [cron EXCEPT !.pc = "update", !.pushed = id, !.due = @ \ {id},
                                       !.delivered = @ \cup {id}]
               ELSE [cron EXCEPT !.due = @ \ {id}, !.failed = @ \cup {id}]
  /\ UNCHANGED <<sessions, pets, vaccines, reminders, turn, nextId, started, tz, owners>>

\* await doc.ref.update({ sent: true }); a rejection is caught and logged
CronUpdate ==
  /\ cron.pc = "update"
  /\ \E ok \in BOOLEAN :
       reminders' = IF ok
                    THEN {IF r.id = cron.pushed THEN [r EXCEPT !.sent = TRUE] ELSE r :
                            r \in reminders}
                    ELSE reminders
  /\ cron' = [cron EXCEPT !.pc = "loop", !.pushed = 0]
  /\ UNCHANGED <<sessions, pets, vaccines, turn, nextId, started, tz, owners>>

\* the loop is over
CronEnd ==
  /\ cron.pc = "loop"
  /\ cron.due = {}
  /\ cron' = [cron EXCEPT !.pc = "idle"]
  /\ UNCHANGED <<sessions, pets, vaccines, reminders, turn, nextId, started, tz, owners>>

CronStep == CronPush \/ CronUpdate \/ CronEnd

-----------------------------------------------------------------------------
(* Specifications *)

ProcessZones == {0, BangkokOffset}

InitStore ==
  /\ sessions = [u \in Users |-> NoSession]
  /\ pets = {}
  /\ vaccines = {}
  /\ reminders = {}
  /\ nextId = 1
  /\ started = 0
  /\ tz \in ProcessZones
  /\ owners = {}
  /\ cron = IdleCron

\* one event at a time
Init ==
  /\ InitStore
  /\ turn = [t \in {1} |-> IdleTurn]

Next ==
  \/ \E t \in Slots, u \in Callers, text \in Texts : HStart(t, u, text)
  \/ \E t \in Slots : HybridStep(t)
  \/ \E t \in Slots : HStorageThrows(t)
  \/ \E t \in Slots : HClearFails(t)

Spec == Init /\ [][Next]_vars

\* the plans of the record-keeping runs: one action, no follow-up question
RecordActs ==
  {Act("add_pet", "a", Undef, Undef, Undef, DateUndef, 0),
   Act("add_pet", Null, Undef, Undef, Undef, DateUndef, 0),
   Act("add_vaccine", Undef, Undef, "a", "R", D1, 0),
   Act("add_vaccine", Undef, Undef, "a", "R", D1, 30),
   Act("add_vaccine", Undef, Undef, "a", Null, DateNull, 0)}

RecordPlans ==
  {[confidence |-> 9, reply_hint |-> FALSE, followup_question |-> FALSE,
    actions |-> <<a>>] : a \in RecordActs}

RecordTexts == {<<"phoem">>}

\* two events can be in progress at once, for any of the three servers,
\* next to the reminder job
InitAll ==
  /\ InitStore
  /\ turn = [t \in {1, 2} |-> IdleTurn]

\* an event waits until no other event is being handled
FirstFree_OneAtATime(t) ==
  /\ turn[t].pc = "idle" /\ \A s \in Slots : s < t => turn[s].pc # "idle"
  /\ \A s \in Slots : Free(s)

\* events.map(async (event) => ...): every event of a request, and of any
\* other request, is started without waiting for the ones in progress. The
\* slots are interchangeable and keep what their event did: an event takes
\* the first slot never used
FirstFree(t) == turn[t].pc = "idle" /\ \A s \in Slots : s < t => turn[s].pc # "idle"

NextAll ==
  \/ \E t \in Slots, u \in Callers, text \in RecordTexts :
       FirstFree(t) /\ HStart(t, u, text)
  \/ \E t \in Slots : HPlanOf(t, RecordPlans) \/ HybridRest(t)
  \/ \E t \in Slots : HStorageThrows(t)
  \/ \E t \in Slots : HClearFails(t)
  \/ \E t \in Slots, u \in Callers : FirstFree(t) /\ L2Start(t, u)
  \/ \E t \in Slots : L2Step(t)
  \/ \E t \in Slots : L2StorageThrows(t)
  \/ \E t \in Slots, u \in Callers, text \in Texts1 :
       FirstFree(t) /\ L1Start(t, u, text)
  \/ \E t \in Slots : L1Step(t)
  \/ \E t \in Slots : L1StorageThrows(t)
  \/ CronStart
  \/ CronStep

SpecAll == InitAll /\ [][NextAll]_vars

\* the reminder job over a store that already holds a vaccination record and
\* its three reminders, written as addVaccine writes them, while a message of
\* the legacy bot may add more
InitCron ==
  /\ sessions = [u \in Users |-> NoSession]
  /\ pets = {}
  /\ tz \in ProcessZones
  /\ LET due == addDays(D1, DefaultCycle, tz) IN
     /\ vaccines = {VaccineDoc(1, "u1", "a", "rabies", D1, due)}
     /\ reminders = {ReminderDoc(i + 1, "u1", 1, 1, "a", LegacyRems[i].type,
                                 RemindAt(due, LegacyRems[i].back)) :
                       i \in 1..Len(LegacyRems)}
  /\ nextId = 5
  /\ started = 0
  /\ owners = {"u1"}
  /\ cron = IdleCron
  /\ turn = [t \in {1} |-> IdleTurn]

NextCron ==
  \/ \E t \in Slots, u \in Callers : FirstFree(t) /\ L2Start(t, u)
  \/ \E t \in Slots : L2Step(t)
  \/ \E t \in Slots : L2StorageThrows(t)
  \/ CronStart
  \/ CronPush
  \/ CronUpdate
  \/ CronEnd

SpecCron == InitCron /\ [][NextCron]_vars

\* text and image messages of one owner, one after the other, over a store
\* that may hold a pet of the owner and a pet of the same name of another
PetsOnFile ==
  {{}, {HybridPet(1, "u1", [name |-> "a", species |-> "cat"]),
        HybridPet(2, "u2", [name |-> "a", species |-> "dog"])}}

InitPhoto ==
  /\ sessions = [u \in Users |-> NoSession]
  /\ pets \in PetsOnFile
  /\ vaccines = {}
  /\ reminders = {}
  /\ nextId = 3
  /\ started = 0
  /\ tz \in ProcessZones
  /\ owners = {}
  /\ cron = IdleCron
  /\ turn = [t \in {1} |-> IdleTurn]

NextPhoto ==
  \/ \E t \in Slots, u \in Callers, text \in Texts : HStart(t, u, text)
  \/ \E t \in Slots : HybridStep(t)
  \/ \E t \in Slots : HStorageThrows(t)
  \/ \E t \in Slots : HClearFails(t)
  \/ \E t \in Slots, u \in Callers : HImageStart(t, u)
  \/ \E t \in Slots : HImageStep(t)

SpecPhoto == InitPhoto /\ [][NextPhoto]_vars

\* the records of one owner as the legacy bot writes them: a pet, a
\* vaccination record and its three reminders, from document id base on
RecordsOf(u, base, zone) ==
  LET due == addDays(D1, DefaultCycle, zone) IN
  [pets |-> {PetCreated(base, PetBase(u, [name |-> "a", species |-> "cat"]))},
   vaccines |-> {VaccineDoc(base + 1, u, "a", "R", D1, due)},
   reminders |-> {ReminderDoc(base + 1 + i, u, base + 1, base + 1, "a",
                              LegacyRems[i].type, RemindAt(due, LegacyRems[i].back)) :
                    i \in 1..Len(LegacyRems)}]

\* a session of the legacy bot waiting for the photo of a pet
PhotoSession ==
  [exists |-> TRUE, expect |-> "pet_photo", pending_action |-> Undef,
   partial |-> EmptyPartial, pet_name |-> "a"]

\* the delete command next to another message of the legacy bot, over a
\* store that holds records of two owners
InitDelete ==
  /\ tz \in ProcessZones
  /\ pets = RecordsOf("u1", 1, tz).pets \cup RecordsOf("u2", 6, tz).pets
  /\ vaccines = RecordsOf("u1", 1, tz).vaccines \cup RecordsOf("u2", 6, tz).vaccines
  /\ reminders = RecordsOf("u1", 1, tz).reminders \cup RecordsOf("u2", 6, tz).reminders
  /\ sessions \in {[u \in Users |-> PhotoSession],
                   [u \in Users |-> IF u = "u2" THEN PhotoSession ELSE NoSession]}
  /\ owners = Users
  /\ nextId = 11
  /\ started = 0
  /\ cron = IdleCron
  /\ turn = [t \in {1, 2} |-> IdleTurn]

NextDelete ==
  \/ \E t \in Slots, u \in Callers : FirstFree(t) /\ L2DeleteStart(t, u)
  \/ \E t \in Slots : L2DeleteStep(t)
  \/ \E t \in Slots, u \in Callers : FirstFree(t) /\ L2Start(t, u)
  \/ \E t \in Slots : L2Step(t)
  \/ \E t \in Slots : L2StorageThrows(t)

SpecDelete == InitDelete /\ [][NextDelete]_vars

\* what the store can hold of the owner who sends nothing: nothing, or a pet
\* 'a' with a vaccination record and its reminders
OtherRecords(zone) ==
  {[pets |-> {}, vaccines |-> {}, reminders |-> {}], RecordsOf("u2", 1, zone)}

\* messages of one owner to any of the three servers, one after the other,
\* over a store that may hold records, a session and an owner document of
\* another
InitOwners ==
  /\ tz \in ProcessZones
  /\ \E o \in OtherRecords(tz) :
       /\ pets = o.pets
       /\ vaccines = o.vaccines
       /\ reminders = o.reminders
       /\ sessions = [u \in Users |-> IF u = "u2" /\ o.pets # {} THEN PhotoSession
                                      ELSE NoSession]
       /\ owners = IF o.pets # {} THEN {"u2"} ELSE {}
  /\ nextId = 6
  /\ started = 0
  /\ cron = IdleCron
  /\ turn = [t \in {1} |-> IdleTurn]

NextOwners ==
  \/ \E t \in Slots, u \in Callers, text \in RecordTexts : HStart(t, u, text)
  \/ \E t \in Slots : HPlanOf(t, RecordPlans) \/ HybridRest(t)
  \/ \E t \in Slots : HStorageThrows(t)
  \/ \E t \in Slots : HClearFails(t)
  \/ \E t \in Slots, u \in Callers : HImageStart(t, u)
  \/ \E t \in Slots : HImageStep(t)
  \/ \E t \in Slots, u \in Callers : L2Start(t, u)
  \/ \E t \in Slots : L2Step(t)
  \/ \E t \in Slots : L2StorageThrows(t)
  \/ \E t \in Slots, u \in Callers : L2DeleteStart(t, u)
  \/ \E t \in Slots : L2DeleteStep(t)
  \/ \E t \in Slots, u \in Callers, text \in Texts1 : L1Start(t, u, text)
  \/ \E t \in Slots : L1Step(t)
  \/ \E t \in Slots : L1StorageThrows(t)

SpecOwners == InitOwners /\ [][NextOwners]_vars

\* texts for the router: with a planner verb, with a symptom keyword, with
\* both, a short answer alone, a short answer followed by more
RouterTexts ==
  {<<"phoem">>, <<"du", "mai", "kin">>, <<"phoem", "thong", "sia">>,
   <<"thong", "sia">>, <<"mai", "kin">>, <<"kin", "noi">>,
   <<"mai">>, <<"chai">>, <<"wan", "ni">>, <<"sawatdi">>,
   <<"chai", "sawatdi">>, <<"mai", "sawatdi">>}

\* the session the turn finds: none, or one with a question open
RouterSessions ==
  {NoSession,
   [exists |-> TRUE, expect |-> "pet_name", pending_action |-> "add_vaccine",
    partial |-> EmptyPartial, pet_name |-> Undef]}

\* a text message up to the decision of the router
InitRouter ==
  /\ sessions \in [Users -> RouterSessions]
  /\ pets = {}
  /\ vaccines = {}
  /\ reminders = {}
  /\ nextId = 1
  /\ started = 0
  /\ tz \in ProcessZones
  /\ owners = {}
  /\ cron = IdleCron
  /\ turn = [t \in {1} |-> IdleTurn]

NextRouter ==
  \/ \E t \in Slots, u \in Callers, text \in RouterTexts : HStart(t, u, text)
  \/ \E t \in Slots : HLoadSession(t)
  \/ \E t \in Slots : HRoute(t)

SpecRouter == InitRouter /\ [][NextRouter]_vars

-----------------------------------------------------------------------------
(* Observations shared by the properties *)

Ended(t) == turn[t].pc \in {"done", "crashed"}

\* the turn ran runPlanner on a plan that llmPlanner returned
RanPlan(t) ==
  /\ turn[t].variant = "hybrid"
  /\ turn[t].route \in {"continue", "planner"}
  /\ turn[t].outcome \in {"followup", "asked", "executed", "threw", "storage_threw"}

\* an action whose required fields are all present
CompleteAction(a) ==
  \/ a.action = "add_pet" /\ Truthy(a.params.name)
  \/ a.action = "add_vaccine" /\ ~VaccineIncomplete(a.params)
  \/ a.action \in {"confirm", "list_vaccine"}

NoCompleteAction(plan) ==
  \A i \in 1..Len(plan.actions) : ~CompleteAction(plan.actions[i])

\* the replies that put a question to the user
QuestionReplies == {"question", "hint", "ask_default"}

ExpectSet(u) == sessions[u].exists /\ Truthy(sessions[u].expect)

-----------------------------------------------------------------------------
(* C1 *)

\* C1: a planner turn on a plan with followup_question set and no complete
\* action, once it has replied, has sent exactly one reply, a question, has
\* written no domain record and has left Session.expect set.
C1_FollowupAlwaysAsks ==
  \A t \in Slots :
    (turn[t].pc = "done" /\ RanPlan(t)
       /\ turn[t].plan.followup_question /\ NoCompleteAction(turn[t].plan))
    => /\ Len(turn[t].replies) = 1
       /\ turn[t].replies[1] \in QuestionReplies
       /\ turn[t].nwrites = 0
       /\ ExpectSet(turn[t].user)

-----------------------------------------------------------------------------
(* C2 *)

\* C2: a text turn that loaded a session with expect set is routed
\* `continue` and runs the planner, never the health/chat path, whatever
\* its text.
C2_OpenQuestionWins ==
  \A t \in Slots :
    (turn[t].variant = "hybrid" /\ turn[t].route # "none"
       /\ Truthy(turn[t].session.expect))
    => /\ turn[t].route = "continue"
       /\ turn[t].pc # "h_chat"
       /\ turn[t].outcome \notin {"chat", "threw_chat"}
       /\ turn[t].reply \notin {"chat", "which"}

\* expect is set, the text holds a symptom keyword and no planner verb,
\* and the turn is about to run the planner
C2_Witness ==
  \E t \in Slots :
    /\ turn[t].pc = "h_plan"
    /\ Truthy(turn[t].session.expect)
    /\ \E k \in symptoms : has(turn[t].text, k)
    /\ turn[t].route = "continue"

-----------------------------------------------------------------------------
(* C3 *)

-----------------------------------------------------------------------------
(* Record keeping: pets, vaccination records and reminders *)

\* a step of event t wrote a pet, a vaccination record or a reminder
WroteRecord(t) ==
  /\ turn'[t] # turn[t]
  /\ pets' # pets \/ vaccines' # vaccines \/ reminders' # reminders

\* the required fields of an action request, per kind
HasRequired(a) ==
  CASE a.action \in {"add_pet", "add_pet_details"} -> Truthy(a.params.name)
    [] a.action = "add_vaccine" ->
         /\ Truthy(a.params.pet_name)
         /\ Truthy(a.params.vaccine_name)
         /\ TruthyDate(a.params.date)
    [] OTHER -> TRUE

\* C4: no handler writes a pet, a vaccination record or a reminder for an
\* action request that lacks a required field (name for add_pet; pet_name,
\* after the handler's own resolution from the pets on file, vaccine_name and
\* date for add_vaccine)
C4_RequiredBeforeWrite ==
  [][\A t \in Slots : WroteRecord(t) => HasRequired(turn'[t].req)]_vars

\* event t is a finished add_pet that wrote its pet
SavedPet(t) ==
  /\ turn[t].pc = "done"
  /\ turn[t].req.action = "add_pet"
  /\ HasRequired(turn[t].req)
  /\ turn[t].nwrites >= 1

PetsNamed(userId, name) ==
  {d \in pets : d.owner_user_id = userId /\ d.name = name}

\* C5: when the same add_pet request of the same owner is executed twice, the
\* second after the first has ended, one pet record has that owner and name
C5_AddPetIdempotent ==
  \A t1, t2 \in Slots :
    ( /\ t1 < t2
      /\ turn[t2].alone
      /\ SavedPet(t1) /\ SavedPet(t2)
      /\ turn[t1].variant = turn[t2].variant
      /\ turn[t1].user = turn[t2].user
      /\ turn[t1].req = turn[t2].req )
    => Cardinality(PetsNamed(turn[t1].user, turn[t1].req.params.name)) = 1

\* C6: in every state, no two pet records have the same owner and name
C6_OnePetPerName ==
  \A d1, d2 \in pets :
    (d1.owner_user_id = d2.owner_user_id /\ d1.name = d2.name) => d1.id = d2.id

\* the reminders issued for the vaccination record with this id
Batch(vid) == {r \in reminders : r.batch = vid}

ReminderTypes == {"D-7", "D-1", "D0"}

\* event t has run an add_vaccine to its end
CompletedVaccine(t) ==
  /\ turn[t].vaccineId # 0
  /\ CASE turn[t].variant = "v1" -> turn[t].outcome = "vaccine_added"
       [] turn[t].variant = "v2" -> turn[t].remIdx = Len(LegacyRems) + 1
       [] OTHER -> turn[t].remIdx = Len(HybridRems) + 1

C7_State ==
  \A t \in Slots :
    CompletedVaccine(t) =>
      /\ Cardinality({v \in vaccines : v.id = turn[t].vaccineId}) = 1
      /\ Cardinality(Batch(turn[t].vaccineId)) = 3
      /\ {r.type : r \in Batch(turn[t].vaccineId)} = ReminderTypes

C7_Step ==
  /\ \A r \in reminders :
       \E r2 \in reminders' : r2 = [r EXCEPT !.sent = r2.sent]
  /\ \A r2 \in reminders' :
       (\A r \in reminders : r.id # r2.id) =>
         /\ r2.sent = FALSE
         /\ \E t \in Slots : /\ turn[t].vaccineId = r2.batch
                             /\ ~CompletedVaccine(t)
                             /\ turn'[t] # turn[t]

\* C7: a completed add_vaccine has made one vaccination record and three
\* reminders for it, one of each type; a reminder is created unsent and only
\* by the add_vaccine of its record while that is still running; no step
\* removes a reminder or changes a field of it other than sent
C7_ThreeRemindersOnce == []C7_State /\ [][C7_Step]_vars

\* a completed add_vaccine one of whose reminders the job has marked sent
C7_Witness ==
  \E t \in Slots :
    /\ CompletedVaccine(t)
    /\ \E r \in Batch(turn[t].vaccineId) : r.sent

\* C8: in every state, each vaccination record has its three reminders
C8_AtomicBatch ==
  \A v \in vaccines :
    /\ Cardinality(Batch(v.id)) = 3
    /\ {r.type : r \in Batch(v.id)} = ReminderTypes

\* C9: the next_due_date stored by an add_vaccine is the civil date
\* cycle_days days (365 when absent) after the stored last_shot_date
C9_NextDueIsDatePlusCycle ==
  \A t \in Slots :
    turn[t].vaccineId # 0 =>
      \A v \in vaccines :
        v.id = turn[t].vaccineId =>
          v.next_due_date =
            CivilPlus(v.last_shot_date, CycleOf(turn[t].cur.params.cycle_days))

\* days before next_due that a reminder type stands for
DaysBefore(type) ==
  CASE type = "D-7" -> 7 [] type = "D-1" -> 1 [] type = "D0" -> 0 [] OTHER -> -1

\* C10: every reminder is due at 09:00 in UTC+7 on the civil date that lies
\* 7 (type D-7), 1 (type D-1) or 0 (type D0) days before the next_due_date of
\* its vaccination record
C10_ReminderInstants ==
  \A r \in reminders :
    /\ r.type \in ReminderTypes
    /\ \E v \in vaccines :
         /\ v.id = r.batch
         /\ r.remind_at =
              ParseBangkok(CivilPlus(v.next_due_date, 0 - DaysBefore(r.type)), NineAM)

\* a vaccination record with all three of its reminders on file
C10_Witness ==
  \E v \in vaccines :
    {r.type : r \in Batch(v.id)} = ReminderTypes


-----------------------------------------------------------------------------
(* Sessions, the interpreter and failures *)

\* the vaccination record event t has written
VaccineOf(t) == {v \in vaccines : v.id = turn[t].vaccineId}

\* C11: an add_vaccine whose date is the token "today" stores as
\* last_shot_date the civil date in UTC+7 of the instant at which the action
\* ran
C11_TodayIsBangkokDay ==
  \A t \in Slots :
    (turn[t].variant = "hybrid" /\ turn[t].req.params.date = DateToday) =>
      \A v \in VaccineOf(t) :
        v.last_shot_date = CivilIn(turn[t].now, BangkokOffset)

\* event t is a planner turn that ran its loop to the end, replied, and in
\* which an add_pet, add_vaccine or confirm succeeded
ExecutedSome(t) ==
  /\ turn[t].variant = "hybrid"
  /\ turn[t].pc = "done"
  /\ turn[t].outcome = "executed"
  /\ turn[t].lines > 0

\* C12: after a planner turn in which an add_pet, add_vaccine or confirm
\* succeeded and that ended without a question, loading the user's session
\* gives the idle session
C12_IdleAfterSuccess ==
  \A t \in Slots :
    ExecutedSome(t) => loadSession(turn[t].user) = IdleSession

\* event t is a planner turn that ended incomplete: it saved the session
\* and asked
EndedAsking(t) ==
  /\ turn[t].variant = "hybrid"
  /\ turn[t].pc = "done"
  /\ turn[t].outcome \in {"asked", "followup"}

\* C13: a pet_name, vaccine_name or date that the session held when a turn
\* began is still held, with the same value, after the turn ended incomplete
\* with a plan that did not supply that field
C13_PartialAccumulates ==
  \A t \in Slots :
    EndedAsking(t) =>
      LET before == turn[t].session.partial
          after  == loadSession(turn[t].user).partial
          given  == turn[t].req.params
      IN  /\ (Truthy(before.pet_name) /\ ~Truthy(given.pet_name))
               => after.pet_name = before.pet_name
          /\ (Truthy(before.vaccine_name) /\ ~Truthy(given.vaccine_name))
               => after.vaccine_name = before.vaccine_name
          /\ (TruthyDate(before.date) /\ ~TruthyDate(given.date))
               => after.date = before.date

\* the three fields of a vaccination are each present in the partial the turn
\* loaded or in the parameters of the plan
JointlyCovered(t) ==
  LET before == turn[t].session.partial
      given  == turn[t].req.params
  IN  /\ Truthy(before.pet_name) \/ Truthy(given.pet_name)
      /\ Truthy(before.vaccine_name) \/ Truthy(given.vaccine_name)
      /\ TruthyDate(before.date) \/ TruthyDate(given.date)

\* C14: a planner turn that continues a pending add_vaccine, and whose plan
\* together with the stored partial covers pet name, vaccine name and date,
\* executes the vaccination in that turn and leaves the session idle
C14_SlotFillingCompletes ==
  \A t \in Slots :
    ( /\ turn[t].variant = "hybrid"
      /\ turn[t].pc = "done"
      /\ turn[t].req.action = "add_vaccine"
      /\ turn[t].session.pending_action = "add_vaccine"
      /\ JointlyCovered(t) )
    => /\ turn[t].outcome = "executed"
       /\ loadSession(turn[t].user) = IdleSession

\* C15: whatever the language-model service does with the request of a planner
\* turn (JSON, no JSON, cut JSON, HTTP error status, no connection), the
\* interpreter adapter hands the planner a value or null and does not throw
C15_AdapterNeverThrows ==
  \A t \in Slots :
    (turn[t].variant = "hybrid" /\ turn[t].svc \in ServiceOutcomes) =>
      llmPlanner(turn[t].svc) # "throws"

\* the interpreter gave the planner turn nothing to parse into a plan: null
\* (no JSON in the answer), or a JSON value without an actions list
Unparseable(t) ==
  /\ turn[t].variant = "hybrid"
  /\ \/ turn[t].svc \in {"non_json", "partial_json"}
     \/ turn[t].svc = "json" /\ ~turn[t].listed

\* C16: a planner turn whose interpreter output cannot be parsed into a plan
\* (null, or no actions list) replies with the fixed fallback text and nothing
\* else, writes no record, and leaves the stored session as the turn found it
C16_UnparseablePlanFallback ==
  \A t \in Slots :
    Unparseable(t) =>
      /\ turn[t].pc \in {"h_reply", "done"}
      /\ turn[t].reply = "unsure"
      /\ turn[t].pc = "done" => turn[t].replies = <<"unsure">>
      /\ turn[t].nwrites = 0
      /\ loadSession(turn[t].user) = turn[t].session

\* a finished turn that found a pending question in the session and got a JSON
\* value without an actions list from the interpreter
C16_Witness ==
  \E t \in Slots :
    /\ Unparseable(t)
    /\ turn[t].svc = "json"
    /\ turn[t].pc = "done"
    /\ turn[t].session.expect = "vaccine_name"
    /\ Truthy(turn[t].session.partial.pet_name)

\* a read or write of the store was rejected inside runPlanner (the session
\* had been loaded and the message routed)
StorageFailed(t) ==
  /\ turn[t].variant = "hybrid"
  /\ turn[t].route \in {"continue", "planner"}
  /\ turn[t].pc = "crashed"
  /\ turn[t].outcome = "storage_threw"

\* C17: when a read or write of the store fails during a planner turn, the
\* stored session is the one the turn found, whatever the plan, also when an
\* earlier action of the plan had succeeded
C17_SessionKeptOnStorageFailure ==
  \A t \in Slots :
    StorageFailed(t) => loadSession(turn[t].user) = turn[t].session

\* C18: every text-message turn of the hybrid server comes to its end inside
\* the handler, with exactly one reply sent: no failure of the interpreter, of
\* a field or of the store leaves onTextMessage as a rejection
C18_OneReplyPerTurn ==
  \A t \in Slots :
    (turn[t].variant = "hybrid" /\ Ended(t)) =>
      /\ turn[t].pc = "done"
      /\ Len(turn[t].replies) = 1

\* nothing tells which pet the owner means: the stored session holds no pet
\* name and the owner has no pet on file
NoPetKnown(u) ==
  /\ ~Truthy(loadSession(u).partial.pet_name)
  /\ ~\E d \in pets : d.owner_user_id = u

\* C19: an add_vaccine request that names no pet, from an owner with no pet in
\* the session and none on file, writes no pet, no vaccination record and no
\* reminder in any of the three servers
C19_NoPetNoRecord ==
  [][\A t \in Slots :
       ( /\ WroteRecord(t)
         /\ turn'[t].req.action = "add_vaccine"
         /\ NoPetKnown(turn[t].user) )
       => Truthy(turn'[t].req.params.pet_name)]_vars

\* the pets of an owner on file, and the one written last (ids grow with time)
PetsOf(u) == {d \in pets : d.owner_user_id = u}
LastPetOf(u) == CHOOSE d \in PetsOf(u) : \A e \in PetsOf(u) : e.id <= d.id

\* the pet an add_vaccine request of turn t is to apply to: the explicit name,
\* else the name held in the session the turn loaded, else the owner's latest pet
TargetKnown(t) ==
  \/ Truthy(turn[t].req.params.pet_name)
  \/ Truthy(turn[t].session.partial.pet_name)
  \/ PetsOf(turn[t].user) # {}

TargetPet(t) ==
  IF Truthy(turn[t].req.params.pet_name) THEN turn[t].req.params.pet_name
  ELSE IF Truthy(turn[t].session.partial.pet_name)
    THEN turn[t].session.partial.pet_name
  ELSE LastPetOf(turn[t].user).name

\* C20: a finished add_vaccine turn that has the vaccine name and the date
\* records the vaccination for the pet named in the request, else for the pet
\* named in the session, else for the owner's most recent pet on file
C20_PetResolutionOrder ==
  \A t \in Slots :
    ( /\ turn[t].pc = "done"
      /\ turn[t].req.action = "add_vaccine"
      /\ Truthy(turn[t].req.params.vaccine_name)
      /\ TruthyDate(turn[t].req.params.date)
      /\ TargetKnown(t) )
    => \E v \in VaccineOf(t) : v.pet_name = TargetPet(t)

-----------------------------------------------------------------------------
(* Pet updates, the router's probe, and the order of a plan's actions *)

\* the event that takes the step supplies no species
StepGivesNoSpecies ==
  \A t \in Slots : turn'[t] # turn[t] => ~Truthy(turn[t].cur.params.species)

\* C21: a write to a pet that is already on file keeps the species the record
\* holds when the update supplies none (re-adding a pet by its name only does
\* not reset it)
C21_UpdateKeepsFields ==
  [][\A d \in pets : \A e \in pets' :
       (e.id = d.id /\ Truthy(d.species) /\ StepGivesNoSpecies)
       => e.species = d.species]_vars

\* the first event since the store was empty has ended, it was an add_vaccine
\* with pet name, vaccine name and date, and no store call of it was rejected
FirstVaccineTurnDone(t) ==
  /\ started = 1
  /\ turn[t].pc = "done"
  /\ turn[t].req.action = "add_vaccine"
  /\ HasRequired(turn[t].req)
  /\ turn[t].outcome # "storage_threw"

\* C22: a complete add_vaccine for a pet that is not on file ends, in its one
\* turn, with exactly one pet of that name for the owner, one vaccination
\* record with its three reminders, and an idle session
C22_SingleTurnVaccine ==
  \A t \in Slots :
    FirstVaccineTurnDone(t) =>
      /\ Cardinality(PetsNamed(turn[t].user, turn[t].req.params.pet_name)) = 1
      /\ Cardinality(VaccineOf(t)) = 1
      /\ Cardinality(Batch(turn[t].vaccineId)) = 3
      /\ loadSession(turn[t].user) = IdleSession

\* the pets a step puts on file
NewPets == {e \in pets' : \A d \in pets : d.id # e.id}

\* C23: the pet that an add_pet with a name and no species creates has no
\* species (none is filled in)
C23_NameOnlyPetHasNoSpecies ==
  [][\A t \in Slots :
       ( /\ turn'[t] # turn[t]
         /\ turn'[t].req.action = "add_pet"
         /\ Truthy(turn'[t].req.params.name)
         /\ ~Truthy(turn'[t].req.params.species) )
       => \A e \in NewPets : ~Truthy(e.species)]_vars

\* the kinds the planner prompt lists for an action
KnownKinds == {"add_pet", "add_vaccine", "add_medical", "list_vaccine", "confirm", "noop"}

\* the plan with every kind outside the list replaced by noop
AsNoop(plan) ==
  [plan EXCEPT !.actions =
     [i \in DOMAIN plan.actions |->
        IF plan.actions[i].action \in KnownKinds THEN plan.actions[i]
        ELSE [plan.actions[i] EXCEPT !.action = "noop"]]]

\* the turn ran a plan whose first action has a kind outside the list, and
\* with noop in its place runPlanner takes the follow-up branch
UnknownKindFollowup(t) ==
  /\ turn[t].variant = "hybrid"
  /\ turn[t].pc = "done"
  /\ turn[t].svc = "json" /\ turn[t].listed
  /\ turn[t].plan.actions # <<>>
  /\ turn[t].plan.actions[1].action \notin KnownKinds
  /\ PlanBranch("value", TRUE, AsNoop(turn[t].plan)) = "h_followup"

\* C24: a plan whose first action has an unrecognized kind ends the turn as the
\* same plan with noop in its place does: when that is the follow-up branch,
\* the turn stores the open question in the session and replies with the hint
\* or the question
C24_UnknownKindIsNoop ==
  \A t \in Slots :
    UnknownKindFollowup(t) =>
      /\ turn[t].outcome = "followup"
      /\ loadSession(turn[t].user).expect = "followup"
      /\ turn[t].replies = <<IF turn[t].plan.reply_hint THEN "hint" ELSE "question">>

\* the router asked the interpreter (no heuristic of quickIntent fired)
Probed(t) == turn[t].variant = "hybrid" /\ turn[t].probe \in ProbeOutcomes

\* C25: when the router has probed the interpreter, the route is planner
\* exactly when the probe's plan holds an action that is not noop; an empty
\* list and a list of noop actions route to chat
C25_ProbeRoutesOnNonNoop ==
  \A t \in Slots :
    Probed(t) =>
      /\ turn[t].route = "planner" <=> turn[t].probe = "actions"
      /\ turn[t].probe \in {"no_actions", "noop_actions"} => turn[t].route = "chat"

Routes == {"continue", "planner", "health", "chat"}

\* C26: the routing step of every turn, for every text and session, yields one
\* of the four routes and hands the turn on; when the probe of the interpreter
\* throws or returns nothing the route is chat
C26_RoutingTotal ==
  [][\A t \in Slots :
       (turn[t].pc = "h_route" /\ turn'[t] # turn[t]) =>
         /\ turn'[t].route \in Routes
         /\ turn'[t].pc \in {"h_plan", "h_chat"}
         /\ turn'[t].probe \in {"throws", "null"} => turn'[t].route = "chat"]_vars

\* a turn whose probe threw and that was routed to chat
C26_Witness ==
  \E t \in Slots :
    /\ turn[t].variant = "hybrid"
    /\ turn[t].probe = "throws"
    /\ turn[t].route = "chat"
    /\ turn[t].pc = "h_chat"

\* the turn ran a plan of the lowest confidence there is
RanUnsurePlan(t) ==
  /\ turn[t].variant = "hybrid"
  /\ turn[t].svc = "json" /\ turn[t].listed
  /\ turn[t].plan.confidence = 0

\* C27: a turn whose plan has confidence 0, below any threshold, writes no
\* record and does not clear the session it loaded
C27_LowConfidenceNotExecuted ==
  \A t \in Slots :
    RanUnsurePlan(t) =>
      /\ turn[t].nwrites = 0
      /\ turn[t].session # IdleSession => loadSession(turn[t].user) # IdleSession

\* the steps of a hybrid turn between two actions of the loop, and inside one
InAction == {"h_pet_clear", "h_pet_create", "h_vac_add", "h_rem_add", "h_vac_clear"}

\* what remains of the plan's list is its tail from some position on; the
\* action being written is the first that remains; a turn that asked has
\* stopped at the incomplete add_vaccine
C28_State ==
  \A t \in Slots :
    turn[t].variant = "hybrid" =>
      LET all  == turn[t].plan.actions
          rest == turn[t].rest
      IN  /\ Len(rest) <= Len(all)
          /\ rest = SubSeq(all, Len(all) - Len(rest) + 1, Len(all))
          /\ turn[t].pc \in InAction =>
               rest # <<>> /\ turn[t].cur.action = Head(rest).action
          /\ turn[t].outcome = "asked" =>
               /\ turn[t].pc \in {"h_reply", "done"}
               /\ rest # <<>>
               /\ Head(rest).action = "add_vaccine"
               /\ VaccineIncomplete(Head(rest).params)

\* a step of a running turn moves on by at most one action and only between
\* writes; no record is written once the turn has asked; no record on file
\* goes away
C28_Step ==
  \A t \in Slots :
    (turn'[t] # turn[t] /\ turn[t].variant = "hybrid" /\ ~Free(t)) =>
      /\ turn[t].pc # "h_plan" =>
           turn'[t].rest = turn[t].rest \/ turn'[t].rest = Tail(turn[t].rest)
      /\ WroteRecord(t) =>
           /\ turn[t].outcome # "asked"
           /\ turn[t].rest # <<>>
           /\ turn'[t].rest = turn[t].rest
      /\ \A d \in pets : \E e \in pets' : e.id = d.id
      /\ vaccines \subseteq vaccines'
      /\ \A r \in reminders : \E r2 \in reminders' : r2.id = r.id

\* C28: the actions of a plan are carried out one after the other in the
\* order of the list, each with all its writes before the next begins; an
\* incomplete add_vaccine ends the turn with a question, the actions after it
\* are not carried out and the records of the actions before it stay
C28_ActionsInListOrder == []C28_State /\ [][C28_Step]_vars

\* a turn that wrote the pet of its first action and then stopped, asking, at
\* the incomplete add_vaccine in second place
C28_Witness ==
  \E t \in Slots :
    /\ turn[t].variant = "hybrid"
    /\ turn[t].pc = "done"
    /\ turn[t].outcome = "asked"
    /\ Len(turn[t].plan.actions) = 2
    /\ Len(turn[t].rest) = 1
    /\ turn[t].plan.actions[1].action = "add_pet"
    /\ turn[t].nwrites = 1
    /\ PetOnFile(turn[t].user, turn[t].plan.actions[1].params.name)

\* a finished planner turn whose plan asked for the list of vaccinations and
\* carried no reply hint
ListTurn(t) ==
  /\ turn[t].variant = "hybrid"
  /\ turn[t].pc = "done"
  /\ turn[t].svc = "json" /\ turn[t].listed
  /\ ~turn[t].plan.reply_hint
  /\ \E i \in DOMAIN turn[t].plan.actions :
       turn[t].plan.actions[i].action = "list_vaccine"

\* C29: a turn that was asked for the list of vaccinations replies with the
\* records or with a none-found message, not with the generic success text
C29_ListNeverSilent ==
  \A t \in Slots :
    ListTurn(t) => turn[t].replies \in {<<"records">>, <<"none_found">>}

-----------------------------------------------------------------------------
(* Two messages of one user at the same time *)

\* a text message of user u can be taken up now
CanStartFor(u) ==
  ENABLED (\E s \in Slots, text \in RecordTexts : FirstFree(s) /\ HStart(s, u, text))

\* two hybrid turns of one user, the second begun while the first was running,
\* both from an idle session, both at the end of a full add_vaccine
RacedVaccines(t1, t2) ==
  /\ t1 # t2
  /\ turn[t1].variant = "hybrid" /\ turn[t2].variant = "hybrid"
  /\ turn[t1].user = turn[t2].user
  /\ ~turn[t2].alone
  /\ turn[t1].session = IdleSession /\ turn[t2].session = IdleSession
  /\ turn[t1].pc = "done" /\ turn[t2].pc = "done"
  /\ CompletedVaccine(t1) /\ CompletedVaccine(t2)

\* C30: the handling of a user's message does not wait for another message of
\* the same user that is in progress; when two such turns both run an
\* add_vaccine from the idle session, each writes its vaccination record and
\* its three reminders, and each ends with its one reply and no error
C30_SameUserTurnsRace ==
  /\ \A t \in Slots :
       ( /\ turn[t].variant = "hybrid" /\ ~Free(t)
         /\ started < MaxTurns
         /\ \E s \in Slots : turn[s].pc = "idle" )
       => CanStartFor(turn[t].user)
  /\ \A t1, t2 \in Slots :
       RacedVaccines(t1, t2) =>
         /\ turn[t1].vaccineId # turn[t2].vaccineId
         /\ Cardinality(VaccineOf(t1) \cup VaccineOf(t2)) = 2
         /\ Cardinality(Batch(turn[t1].vaccineId) \cup Batch(turn[t2].vaccineId)) = 6
         /\ turn[t1].replies = <<"lines">> /\ turn[t2].replies = <<"lines">>

\* both turns of the race have ended: two vaccination records and six
\* reminders of the one user are on file, and the session document is gone
C30_Witness ==
  \E t1, t2 \in Slots :
    /\ RacedVaccines(t1, t2)
    /\ Cardinality({v \in vaccines : v.owner_user_id = turn[t1].user}) = 2
    /\ Cardinality({r \in reminders : r.owner_user_id = turn[t1].user}) = 6
    /\ loadSession(turn[t1].user) = IdleSession

-----------------------------------------------------------------------------
(* The sent flag of a reminder *)

\* what the reminder documents do in a step: none disappears, none changes
\* but for its sent flag, a sent flag goes from false to true only, and a new
\* reminder is unsent
SentMonotonic ==
  /\ \A r \in reminders : \E r2 \in reminders' :
       /\ r2.id = r.id
       /\ [r2 EXCEPT !.sent = r.sent] = r
       /\ r.sent => r2.sent
  /\ \A r2 \in reminders' :
       (\A r \in reminders : r.id # r2.id) => ~r2.sent

\* a push that throws leaves the reminders as they are, and the job goes to
\* the next reminder without an update
FailedPushKeepsUnsent ==
  cron'.failed # cron.failed =>
    /\ reminders' = reminders
    /\ cron'.pc = "loop"
    /\ \A id \in cron'.failed \ cron.failed :
         \A r \in reminders' : r.id = id => ~r.sent

\* a run selects every unsent reminder that is due, the ones whose push
\* failed in an earlier run among them
SelectedAgain ==
  (cron.pc = "idle" /\ cron'.pc = "loop") =>
    \A r \in reminders :
      (~r.sent /\ r.remind_at <= cron'.now) => r.id \in cron'.due

\* C31: the sent flag of a reminder starts false and only ever goes from
\* false to true; it is true only for a reminder whose push has succeeded;
\* a reminder whose push failed stays unsent and is selected again by a later
\* run of the job
C31_SentMonotonic ==
  /\ [](\A r \in reminders : r.sent => r.id \in cron.delivered)
  /\ [][SentMonotonic /\ FailedPushKeepsUnsent /\ SelectedAgain]_vars

\* a reminder whose push failed in an earlier run is selected by this run
C31_Witness ==
  /\ cron.pc = "loop"
  /\ \E r \in reminders : r.id \in cron.failed \cap cron.due /\ ~r.sent

-----------------------------------------------------------------------------
(* The precedence of the router's heuristics *)

HasVerb(text) == \E v \in plannerVerbs : has(text, v)
HasSymptom(text) == \E v \in symptoms : has(text, v)

\* slot t has been routed with no question open
RoutedIdle(t) ==
  /\ turn[t].variant = "hybrid"
  /\ turn[t].route # "none"
  /\ ~Truthy(turn[t].session.expect)

\* C32: with no question open, a text with a planner verb is routed planner,
\* with a symptom keyword or not; else a text with a symptom keyword is
\* routed health, a short answer followed by the rest of a symptom keyword
\* included; else a text that is exactly a short answer is routed continue and
\* goes to the planner; else the probe decides between planner and chat
C32_HeuristicPrecedence ==
  \A t \in Slots :
    RoutedIdle(t) =>
      LET x == turn[t].text IN
      IF HasVerb(x) THEN turn[t].route = "planner" /\ turn[t].pc = "h_plan"
      ELSE IF HasSymptom(x) THEN turn[t].route = "health" /\ turn[t].pc = "h_chat"
      ELSE IF x \in shortAnswers
        THEN turn[t].route = "continue" /\ turn[t].pc = "h_plan"
      ELSE /\ turn[t].route \in {"planner", "chat"}
           /\ turn[t].route = "planner" <=> ProbeHasActions(turn[t].probe)

\* 'not eating', which starts with the short answer 'no', is routed health
\* with no question open
C32_Witness ==
  \E t \in Slots :
    /\ RoutedIdle(t)
    /\ turn[t].text = <<"mai", "kin">>
    /\ turn[t].route = "health"

-----------------------------------------------------------------------------
(* How long a question stays open *)

ClearingKinds == {"add_pet", "add_vaccine", "confirm"}

\* the step closes the question of user u
Closes(u) == ExpectSet(u) /\ ~ExpectSet(u)'

\* slot t takes the step, running one of the three clearing actions or the
\* image handler
ClearingTurn(t, u) ==
  /\ turn[t].user = u
  /\ turn'[t] # turn[t]
  /\ \/ turn[t].variant = "image"
     \/ turn[t].variant = "hybrid" /\ turn'[t].cur.action \in ClearingKinds

\* the turn of slot t found a question open and is over without having run a
\* clearing action: the interpreter threw, or gave no plan, or a plan of
\* other kinds of action only
EndedWithoutClearing(t) ==
  /\ turn[t].variant = "hybrid"
  /\ turn[t].pc = "done"
  /\ Truthy(turn[t].session.expect)
  /\ \/ turn[t].outcome \in {"llm_threw", "no_plan"}
     \/ /\ turn[t].outcome \notin {"llm_threw", "no_plan", "followup"}
        /\ \A i \in 1..Len(turn[t].plan.actions) :
             turn[t].plan.actions[i].action \notin ClearingKinds

\* C33: a question once open stays open until a turn of its user runs
\* add_pet, add_vaccine or confirm, or the image handler closes it; a turn
\* that found it open and whose interpreter call failed, gave no plan or gave
\* only actions of other kinds leaves it open, and the turn was routed to the
\* planner and not to the chat
C33_QuestionStaysOpen ==
  /\ [](\A t \in Slots :
          EndedWithoutClearing(t) =>
            /\ ExpectSet(turn[t].user)
            /\ turn[t].route = "continue"
            /\ turn[t].outcome \notin {"chat", "threw_chat"})
  /\ [][\A u \in Users : Closes(u) => \E t \in Slots : ClearingTurn(t, u)]_vars

\* a turn found the question the image handler had opened, got no plan, and
\* ended with the stored session as it found it: the next message meets the
\* same state
C33_Witness ==
  \E t \in Slots :
    /\ EndedWithoutClearing(t)
    /\ turn[t].outcome = "no_plan"
    /\ turn[t].session.expect = "profile_photo_pet_name"
    /\ loadSession(turn[t].user) = turn[t].session

-----------------------------------------------------------------------------
(* The photo of a pet on file *)

\* the turn of slot t is a text turn that found the address of an image held
\* in the session, its plan names the pet d, and it ran the plan to the end
NamesPetAfterImage(t, d) ==
  /\ turn[t].variant = "hybrid"
  /\ turn[t].pc = "done"
  /\ turn[t].outcome = "executed"
  /\ turn[t].session.expect = "profile_photo_pet_name"
  /\ turn[t].session.partial.temp_photo_url = PhotoUrl
  /\ d.owner_user_id = turn[t].user
  /\ \E i \in 1..Len(turn[t].plan.actions) :
       LET p == turn[t].plan.actions[i].params IN
       p.name = d.name \/ p.pet_name = d.name

\* C34: after an image was received with no photo awaited, its address is
\* held in the session, and when the next text of the user names a pet on
\* file the profile photo of that pet is the held address
C34_PhotoAttached ==
  \A t \in Slots : \A d \in pets :
    (d \in UNION PetsOnFile /\ NamesPetAfterImage(t, d))
      => d.profile_photo_url = PhotoUrl

\* the branch of the image handler that attaches the photo is never taken:
\* no stored session has expect = 'profile_photo'
PhotoNeverAwaited ==
  /\ \A u \in Users : ~PhotoAwaited(loadSession(u))
  /\ \A t \in Slots : turn[t].pc \notin {"hi_attach", "hi_clear"}
  /\ \A d \in pets : d.profile_photo_url # PhotoUrl

-----------------------------------------------------------------------------
(* The delete command *)

\* slot t is sending the reply that everything was deleted
RepliesDeleted(t) ==
  /\ turn[t].variant = "v2"
  /\ turn[t].pc = "l_reply"
  /\ turn[t].reply = "deleted"

\* no pet, vaccination record or reminder of owner u is stored
RecordsGone(u) == \A c \in DelCols : OwnedIn(c, u) = {}

\* neither the owner document nor the session of u is stored
OwnerGone(u) == u \notin owners /\ ~sessions[u].exists

\* what the store holds of the other owner is what it held at the start
OthersKept ==
  /\ RecordsOf("u2", 6, tz).pets \subseteq pets
  /\ RecordsOf("u2", 6, tz).vaccines \subseteq vaccines
  /\ RecordsOf("u2", 6, tz).reminders \subseteq reminders
  /\ "u2" \in owners
  /\ sessions["u2"] = PhotoSession

\* C35: when the delete command replies that everything was deleted, the
\* store holds no pet, vaccination record, reminder, owner document or
\* session of that user, and the records of the other users are unchanged;
\* also when another message of the same user is being handled
C35_DeleteRemovesAll ==
  \A t \in Slots :
    RepliesDeleted(t) =>
      /\ RecordsGone(turn[t].user)
      /\ OwnerGone(turn[t].user)
      /\ OthersKept

\* the same for the pets, vaccination records and reminders alone, which no
\* swallowed rejection can leave behind
DeleteLeavesNoRecords ==
  \A t \in Slots : RepliesDeleted(t) => RecordsGone(turn[t].user)

\* the delete command never touches what another owner has stored
DeleteKeepsOthers ==
  \A t \in Slots : RepliesDeleted(t) => OthersKept

-----------------------------------------------------------------------------
(* Owner isolation *)

\* the owners who send no message
Others == Users \ Callers

\* everything the store holds of owner u
ViewOf(u) ==
  [pets |-> {d \in pets : d.owner_user_id = u},
   vaccines |-> {d \in vaccines : d.owner_user_id = u},
   reminders |-> {d \in reminders : d.owner_user_id = u},
   session |-> sessions[u],
   owner |-> u \in owners]

\* every document written since the start belongs to a user who sent a message
WrittenByCallers ==
  \A d \in pets \cup vaccines \cup reminders :
    d.id >= 6 => d.owner_user_id \in Callers

\* a hybrid turn that wrote a vaccination record found or created the pet
\* among the pets of its own user
PetResolvedAmongOwn ==
  \A t \in Slots :
    (turn[t].variant = "hybrid" /\ turn[t].vaccineId # 0) =>
      \E d \in pets : /\ d.owner_user_id = turn[t].user
                      /\ d.name = turn[t].cur.params.pet_name

====
